---------------------------- MODULE Spec2Model ----------------------------
(***************************************************************************)
(* A model of StreamSafe's privacy processor (src/privacy_processor.py):   *)
(* the OCR block-number detector (RobustOCRBlockDetector) and the frame    *)
(* pipeline (StreamSafeProcessor).                                         *)
(*                                                                         *)
(* Conventions.                                                            *)
(*  - A frame is a record [shape, tex, writes]: shape is numpy's           *)
(*    (height, width, channels); tex says whether the pixels are uniform   *)
(*    ("white") or vary ("tex"); writes is the sequence of slice           *)
(*    assignments frame[y1:y2, x1:x2] = blurred made to the buffer, in     *)
(*    order.  A pixel of the buffer can differ from the pixel it was       *)
(*    created with only inside one of these rectangles.  None is the       *)
(*    record NoneFrame.                                                    *)
(*  - Buffers live in a heap (buffer name -> frame); process_frame         *)
(*    receives and returns buffer names, so that aliasing is visible.      *)
(*  - Floating-point coordinates are carried in half pixels (the value v   *)
(*    stands for v/2); int() truncates toward zero.                        *)
(*  - Confidences are carried in hundredths.                               *)
(*  - Text is a sequence of one-character strings.                         *)
(*  - The OCR engine, the plate model and OpenCV's contour finder are      *)
(*    outside the repository: each call draws its outcome from a set.      *)
(***************************************************************************)
EXTENDS Integers, Sequences, FiniteSets, TLC

Min(a, b) == IF a < b THEN a ELSE b
Max(a, b) == IF a > b THEN a ELSE b

(* F applied to the value of v: v is evaluated once, before F *)
Bind(v, F(_)) == CHOOSE out \in { F(x) : x \in {v} } : TRUE

(***************************************************************************)
(* Python's int() on a float carried in half pixels: truncation toward 0.  *)
(***************************************************************************)
IntOfHalf(v) == IF v >= 0 THEN v \div 2 ELSE -((-v) \div 2)

RECURSIVE SeqMin(_)
SeqMin(s) == IF Len(s) = 1 THEN s[1] ELSE Min(s[1], SeqMin(Tail(s)))
RECURSIVE SeqMax(_)
SeqMax(s) == IF Len(s) = 1 THEN s[1] ELSE Max(s[1], SeqMax(Tail(s)))

(***************************************************************************)
(* Frames.                                                                 *)
(***************************************************************************)
NoneFrame == [none |-> TRUE]
IsNone(f) == "none" \in DOMAIN f

Frame(h, w, tex) == [shape |-> <<h, w, 3>>, tex |-> tex, writes |-> <<>>]

(* numpy's normalisation of one slice bound i against an axis of length n *)
SliceIndex(i, n) == IF i < 0 THEN Max(i + n, 0) ELSE Min(i, n)

(* frame[y1:y2, x1:x2]: the rectangle of the buffer the slice denotes, as  *)
(* <<x1, y1, x2, y2>> after numpy's normalisation.                         *)
Roi(frame, y1, y2, x1, x2) ==
    << SliceIndex(x1, frame.shape[2]), SliceIndex(y1, frame.shape[1]),
       SliceIndex(x2, frame.shape[2]), SliceIndex(y2, frame.shape[1]) >>

(* roi.size: rows * columns * channels of the slice *)
RoiSize(frame, roi) ==
    Max(roi[3] - roi[1], 0) * Max(roi[4] - roi[2], 0) * frame.shape[3]

(* cv2.blur and cv2.GaussianBlur are normalised averages: on a buffer of    *)
(* uniform pixels the blurred sub-image equals the sub-image, on a buffer   *)
(* whose pixels vary it does not.  A pixel of the buffer differs from the   *)
(* pixel it was created with iff a write changed it.                        *)
BlurChangesPixels(frame) == frame.tex # "white"
PixelsChanged(frame) == frame.writes # <<>> /\ BlurChangesPixels(frame)

(* roi = frame[y1:y2, x1:x2]; if roi.size > 0: frame[y1:y2, x1:x2] = blur(roi) *)
BlurRoiAll(frame, y1, y2, x1, x2, kind) ==
    [frame EXCEPT !.writes = Append(@, [rect |-> <<0, 0, frame.shape[2], frame.shape[1]>>,
                                         blur |-> kind])]
BlurRoi(frame, y1, y2, x1, x2, kind) ==
    LET roi == Roi(frame, y1, y2, x1, x2)
    IN  IF RoiSize(frame, roi) > 0
        THEN [frame EXCEPT !.writes = Append(@, [rect |-> roi, blur |-> kind])]
        ELSE frame

(***************************************************************************)
(* RobustOCRBlockDetector._is_valid_bbox.  A bbox is [isNone, pts]; a      *)
(* point is a sequence of coordinates; NonNumeric is a coordinate float()  *)
(* rejects.                                                                *)
(***************************************************************************)
NonNumeric == 99999

(* the points counted, not looked at *)
IsValidBboxCountOnly(bbox) == ~bbox.isNone /\ Len(bbox.pts) = 4

_is_valid_bbox(bbox) ==
    /\ ~bbox.isNone
    /\ Len(bbox.pts) = 4
    /\ \A i \in 1..Len(bbox.pts) :
          /\ Len(bbox.pts[i]) = 2
          /\ bbox.pts[i][1] # NonNumeric
          /\ bbox.pts[i][2] # NonNumeric

(***************************************************************************)
(* RobustOCRBlockDetector._extract_bbox_safely: <<x1, y1, x2, y2>>, or     *)
(* NoRegion for None.                                                      *)
(***************************************************************************)
NoRegion == <<>>
padding == 10

(* the padded box, not clamped again *)
ExtractBboxPaddedOnly(bbox, frame_shape) ==
    IF ~_is_valid_bbox(bbox) THEN NoRegion
    ELSE
    LET x_coords == [i \in 1..4 |-> bbox.pts[i][1]]
        y_coords == [i \in 1..4 |-> bbox.pts[i][2]]
    IN  << IntOfHalf(SeqMin(x_coords)) - padding, IntOfHalf(SeqMin(y_coords)) - padding,
           IntOfHalf(SeqMax(x_coords)) + padding, IntOfHalf(SeqMax(y_coords)) + padding >>

_extract_bbox_safely(bbox, frame_shape) ==
    IF ~_is_valid_bbox(bbox) THEN NoRegion
    ELSE
    LET x_coords == [i \in 1..4 |-> bbox.pts[i][1]]
        y_coords == [i \in 1..4 |-> bbox.pts[i][2]]
        x1a == IntOfHalf(SeqMin(x_coords))
        x2a == IntOfHalf(SeqMax(x_coords))
        y1a == IntOfHalf(SeqMin(y_coords))
        y2a == IntOfHalf(SeqMax(y_coords))
        frame_height == frame_shape[1]
        frame_width  == frame_shape[2]
        \* Clamp to frame bounds
        x1b == Max(0, Min(x1a, frame_width - 1))
        y1b == Max(0, Min(y1a, frame_height - 1))
        x2b == Max(x1b + 1, Min(x2a, frame_width))
        y2b == Max(y1b + 1, Min(y2a, frame_height))
        \* Add padding
    IN  << Max(0, x1b - padding), Max(0, y1b - padding),
           Min(frame_width, x2b + padding), Min(frame_height, y2b + padding) >>

(***************************************************************************)
(* RobustOCRBlockDetector._clean_text: strip, upper, drop [^\w], then the  *)
(* misread replacements.  The alphabet is the engine's allowlist plus a    *)
(* few characters outside it.                                              *)
(***************************************************************************)
Digits == {"0", "1", "2", "3", "4", "5", "6", "7", "8", "9"}
UpperLetters == {"A", "B", "C", "G", "I", "O", "S", "Z"}
LowerLetters == {"a", "b", "o", "s"}
Whitespace == {" ", "\n"}

Upper(c) ==
    CASE c = "a" -> "A" [] c = "b" -> "B" [] c = "o" -> "O" [] c = "s" -> "S"
      [] OTHER -> c

(* \w: letters, digits and the underscore *)
IsWordChar(c) == c \in Digits \cup UpperLetters \cup LowerLetters \cup {"_"}

ReplacementChained(c) ==
    CASE c = "O" -> "I" [] c = "I" -> "1" [] c = "S" -> "5"
      [] c = "G" -> "6" [] c = "Z" -> "2" [] c = "B" -> "8"
      [] OTHER -> c
Replacement(c) ==
    CASE c = "O" -> "0" [] c = "I" -> "1" [] c = "S" -> "5"
      [] c = "G" -> "6" [] c = "Z" -> "2" [] c = "B" -> "8"
      [] OTHER -> c

RECURSIVE LStrip(_)
LStrip(s) == IF s # <<>> /\ s[1] \in Whitespace THEN LStrip(Tail(s)) ELSE s
RECURSIVE RStrip(_)
RStrip(s) ==
    IF s # <<>> /\ s[Len(s)] \in Whitespace THEN RStrip(SubSeq(s, 1, Len(s) - 1)) ELSE s
Strip(s) == RStrip(LStrip(s))

(* the misreads replaced before the text is uppercased *)
CleanTextReplacesFirst(text) ==
    IF text = <<>> THEN <<>>
    ELSE LET replaced == [i \in 1..Len(Strip(text)) |-> Replacement(Strip(text)[i])]
             upper == [i \in 1..Len(replaced) |-> Upper(replaced[i])]
         IN  SelectSeq(upper, IsWordChar)
CleanTextKeepsMisreads(text) ==
    IF text = <<>> THEN <<>>
    ELSE SelectSeq([i \in 1..Len(Strip(text)) |-> Upper(Strip(text)[i])], IsWordChar)
_clean_text(text) ==
    IF text = <<>> THEN <<>>
    ELSE LET upper == [i \in 1..Len(Strip(text)) |-> Upper(Strip(text)[i])]
             cleaned == SelectSeq(upper, IsWordChar)
         IN  [i \in 1..Len(cleaned) |-> Replacement(cleaned[i])]

(***************************************************************************)
(* RobustOCRBlockDetector._is_singapore_block_number.  re.match with a     *)
(* trailing $ also accepts one "\n" after the match.                       *)
(***************************************************************************)
AllDigits(s) == \A i \in 1..Len(s) : s[i] \in Digits

(* ^\d{1,3}$ *)
MatchDigits(s) ==
    \/ Len(s) \in 1..3 /\ AllDigits(s)
    \/ /\ Len(s) \in 2..4
       /\ s[Len(s)] = "\n"
       /\ AllDigits(SubSeq(s, 1, Len(s) - 1))

(* ^\d{1,3}[A-Z]$ *)
MatchDigitsLetter(s) ==
    \/ /\ Len(s) \in 2..4
       /\ AllDigits(SubSeq(s, 1, Len(s) - 1))
       /\ s[Len(s)] \in UpperLetters
    \/ /\ Len(s) \in 3..5
       /\ s[Len(s)] = "\n"
       /\ AllDigits(SubSeq(s, 1, Len(s) - 2))
       /\ s[Len(s) - 1] \in UpperLetters

_is_singapore_block_number(text) ==
    IF text = <<>> \/ Len(text) < 1 \/ Len(text) > 4 THEN FALSE
    ELSE MatchDigits(text) \/ MatchDigitsLetter(text)

(***************************************************************************)
(* RobustOCRBlockDetector.detect_singapore_block_numbers.  The engine's    *)
(* outcome is [raises, results]; a detection is [bbox, text, conf], conf   *)
(* in hundredths, ConfNone a confidence that cannot be compared with 0.4   *)
(* (the comparison raises and the detection is skipped).                   *)
(***************************************************************************)
ConfNone == -1
ConfMin == 40
MaxBlockRegions == 4

(* a detection whose confidence cannot be compared is taken as confident *)
DetectionRegionsUnguarded(detection, frame_shape) ==
    IF ~_is_valid_bbox(detection.bbox) THEN <<>>
    ELSE IF detection.conf # ConfNone /\ ~(detection.conf > ConfMin) THEN <<>>
    ELSE IF ~_is_singapore_block_number(_clean_text(detection.text)) THEN <<>>
    ELSE LET coords == _extract_bbox_safely(detection.bbox, frame_shape)
         IN  IF coords = NoRegion THEN <<>> ELSE <<coords>>

(* one pass of the loop body: the regions this detection appends *)
DetectionRegions(detection, frame_shape) ==
    IF ~_is_valid_bbox(detection.bbox) THEN <<>>
    ELSE IF detection.conf = ConfNone THEN <<>>
    ELSE IF ~(detection.conf > ConfMin) THEN <<>>
    ELSE IF ~_is_singapore_block_number(_clean_text(detection.text)) THEN <<>>
    ELSE LET coords == _extract_bbox_safely(detection.bbox, frame_shape)
         IN  IF coords = NoRegion THEN <<>> ELSE <<coords>>

RECURSIVE BlockRegions(_, _)
BlockRegions(results, frame_shape) ==
    IF results = <<>> THEN <<>>
    ELSE DetectionRegions(Head(results), frame_shape)
            \o BlockRegions(Tail(results), frame_shape)

(* the last n instead of the first n *)
TruncateTail(s, n) == SubSeq(s, Max(1, Len(s) - n + 1), Len(s))
Truncate(s, n) == SubSeq(s, 1, Min(Len(s), n))

detect_singapore_block_numbers(reader, frame, engine) ==
    IF reader = "None" THEN <<>>
    ELSE IF engine.raises THEN <<>>
    ELSE IF engine.results = <<>> THEN <<>>
    ELSE Truncate(BlockRegions(engine.results, frame.shape), MaxBlockRegions)

(***************************************************************************)
(* StreamSafeProcessor._detect_signs_singapore.  OpenCV's outcome is       *)
(* [raises, contours]; a contour is [area2, rect]: contourArea in halves   *)
(* and boundingRect <<x, y, w, h>>.                                        *)
(***************************************************************************)
AreaMin == 800
AreaMax == 25000
MaxSignRegions == 3

(* the band with its ends *)
AspectOkInclusive(w, h) == 2 * w >= 3 * h /\ 2 * w <= 13 * h
(* 1.5 < w / h < 6.5, in integers *)
AspectOk(w, h) == 2 * w > 3 * h /\ 2 * w < 13 * h

ContourRegions(contour) ==
    IF 2 * AreaMin < contour.area2 /\ contour.area2 < 2 * AreaMax
    THEN LET x == contour.rect[1]
             y == contour.rect[2]
             w == contour.rect[3]
             h == contour.rect[4]
         IN  IF AspectOk(w, h) THEN << <<x, y, x + w, y + h>> >> ELSE <<>>
    ELSE <<>>

RECURSIVE SignRegions(_)
SignRegions(contours) ==
    IF contours = <<>> THEN <<>>
    ELSE ContourRegions(Head(contours)) \o SignRegions(Tail(contours))

_detect_signs_singapore(frame, cv) ==
    IF cv.raises THEN <<>>
    ELSE Truncate(SignRegions(cv.contours), MaxSignRegions)

(***************************************************************************)
(* Blurring a sequence of regions <<x1, y1, x2, y2>> in order, as the      *)
(* loops of blur_address_numbers and blur_street_signs do.                 *)
(***************************************************************************)
(* the buffer replaced by the last blurred sub-image *)
BlurRegionsCropped(frame, regions, kind) ==
    IF regions = <<>> THEN frame
    ELSE LET r == regions[Len(regions)]
         IN  [frame EXCEPT !.shape = << Max(r[4] - r[2], 0), Max(r[3] - r[1], 0),
                                        frame.shape[3] >>]
RECURSIVE BlurRegions(_, _, _)
BlurRegions(frame, regions, kind) ==
    IF regions = <<>> THEN frame
    ELSE LET r == Head(regions)
             f == IF r[3] > r[1] /\ r[4] > r[2]
                  THEN BlurRoi(frame, r[2], r[4], r[1], r[3], kind)
                  ELSE frame
         IN  BlurRegions(f, Tail(regions), kind)

(***************************************************************************)
(* StreamSafeProcessor.blur_license_plates.                                *)
(***************************************************************************)
DemoW == 120
DemoH == 30
PlateConf == 65

(* int(width * 0.7) in double arithmetic: one less than the exact floor    *)
(* for these widths (all there are below 1290)                             *)
Double07Low == {90, 170, 180, 330, 340, 350, 360, 650, 660, 670, 680, 690,
                700, 710, 720, 730}
IntTimes07(w) == (7 * w) \div 10 - (IF w \in Double07Low THEN 1 ELSE 0)

demo_regions(height, width) ==
    << << width \div 10, (8 * height) \div 10, DemoW, DemoH >>,
       << IntTimes07(width), (3 * height) \div 4, DemoW, DemoH >> >>

(* the demo regions the guard x + w < width and y + h < height lets through, *)
(* as <<x1, y1, x2, y2>>                                                     *)
DemoFitsAlways(d, height, width) == TRUE
DemoFits(d, height, width) == d[1] + d[3] < width /\ d[2] + d[4] < height

RECURSIVE DemoBlurred(_, _, _)
DemoBlurred(demos, height, width) ==
    IF demos = <<>> THEN <<>>
    ELSE LET d == Head(demos)
         IN  (IF DemoFits(d, height, width)
              THEN << <<d[1], d[2], d[1] + d[3], d[2] + d[4]>> >>
              ELSE <<>>) \o DemoBlurred(Tail(demos), height, width)

(* the model branch: boxes above the confidence, truncated and clamped.    *)
(* NaN is a coordinate int() raises on; the exception leaves the loop, and *)
(* the boxes handled before it stay blurred.                               *)
NaN == 77777

BoxRaises(b) == \E i \in 1..Len(b.box) : b.box[i] = NaN

BoxRegion(b, frame) ==
    << Max(0, IntOfHalf(b.box[1])), Max(0, IntOfHalf(b.box[2])),
       Min(IntOfHalf(b.box[3]), frame.shape[2]),
       Min(IntOfHalf(b.box[4]), frame.shape[1]) >>

(* every box above the confidence handled, a failing one passed over *)
RECURSIVE PlateRegionsPastFailure(_, _)
PlateRegionsPastFailure(boxes, frame) ==
    IF boxes = <<>> THEN <<>>
    ELSE (IF Head(boxes).conf > PlateConf /\ ~BoxRaises(Head(boxes))
          THEN << BoxRegion(Head(boxes), frame) >>
          ELSE <<>>) \o PlateRegionsPastFailure(Tail(boxes), frame)

RECURSIVE PlateRegions(_, _)
PlateRegions(boxes, frame) ==
    IF boxes = <<>> THEN <<>>
    ELSE IF ~(Head(boxes).conf > PlateConf) THEN PlateRegions(Tail(boxes), frame)
    ELSE IF BoxRaises(Head(boxes)) THEN <<>>
    ELSE << BoxRegion(Head(boxes), frame) >> \o PlateRegions(Tail(boxes), frame)

(* the loop over the boxes ends in the except clause *)
PlateLoopRaises(boxes) ==
    \E i \in 1..Len(boxes) : boxes[i].conf > PlateConf /\ BoxRaises(boxes[i])

(* returns [frame, branch, regions, failed]: the buffer after the call,    *)
(* the branch taken, the regions handed to the blur and whether the except *)
(* clause was reached                                                      *)
BlurLicensePlatesByContent(license_plate_model, frame, plate) ==
    LET height == frame.shape[1]
        width  == frame.shape[2]
        regions == IF frame.tex = "white" THEN <<>>
                   ELSE DemoBlurred(demo_regions(height, width), height, width)
    IN  [frame |-> BlurRegions(frame, regions, "gauss51"),
         branch |-> IF license_plate_model = "None" THEN "fallback" ELSE "model",
         regions |-> regions, failed |-> FALSE]
blur_license_plates(license_plate_model, frame, plate) ==
    IF license_plate_model = "None"
    THEN LET height == frame.shape[1]
             width  == frame.shape[2]
             regions == DemoBlurred(demo_regions(height, width), height, width)
         IN  [frame |-> BlurRegions(frame, regions, "gauss51"),
              branch |-> "fallback", regions |-> regions, failed |-> FALSE]
    ELSE IF plate.raises
         THEN [frame |-> frame, branch |-> "model", regions |-> <<>>,
               failed |-> TRUE]
         ELSE LET regions == PlateRegions(plate.boxes, frame)
              IN  [frame |-> BlurRegions(frame, regions, "gauss51"),
                   branch |-> "model", regions |-> regions,
                   failed |-> PlateLoopRaises(plate.boxes)]

(***************************************************************************)
(* StreamSafeProcessor.blur_address_numbers and blur_street_signs.  self   *)
(* is the record of the processor's fields.  Each returns [self, frame,    *)
(* ran]: the fields and the buffer after the call, and whether the         *)
(* detector was invoked.                                                   *)
(***************************************************************************)
BlockPeriod == 30
SignPeriod == 15

BlockRefreshDueEarly(counter) == counter % BlockPeriod = 1
(* a refresh on the first enabled call as well *)
BlockRefreshDueFirst(counter) == counter = 1 \/ counter % BlockPeriod = 0
BlockRefreshDue(counter) == counter % BlockPeriod = 0

SignRefreshDueAlways(counter) == TRUE
SignRefreshDue(counter) == counter % SignPeriod = 0

(* the regions cached before the refresh are the ones blurred *)
BlurAddressNumbersBeforeRefresh(self, frame, engine) ==
    LET counter == self.block_counter + 1
        due == BlockRefreshDue(counter)
        cached == IF due
                  THEN detect_singapore_block_numbers(self.reader, frame, engine)
                  ELSE self.cached_block_regions
    IN  [self |-> [self EXCEPT !.block_counter = counter,
                               !.cached_block_regions = cached],
         frame |-> BlurRegions(frame, self.cached_block_regions, "box51"),
         ran |-> due]

BlurAddressNumbersReset(self, frame, engine) ==
    LET counter == self.block_counter + 1
        due == BlockRefreshDue(counter)
        cached == IF due
                  THEN detect_singapore_block_numbers(self.reader, frame, engine)
                  ELSE self.cached_block_regions
    IN  [self |-> [self EXCEPT !.block_counter = IF due THEN 0 ELSE counter,
                               !.cached_block_regions = cached],
         frame |-> BlurRegions(frame, cached, "box51"),
         ran |-> due]

(* a failed refresh keeps the regions cached before it *)
BlurAddressNumbersKeepStale(self, frame, engine) ==
    LET counter == self.block_counter + 1
        due == BlockRefreshDue(counter)
        cached == IF due /\ ~engine.raises
                  THEN detect_singapore_block_numbers(self.reader, frame, engine)
                  ELSE self.cached_block_regions
    IN  [self |-> [self EXCEPT !.block_counter = counter,
                               !.cached_block_regions = cached],
         frame |-> BlurRegions(frame, cached, "box51"),
         ran |-> due]

blur_address_numbers(self, frame, engine) ==
    LET counter == self.block_counter + 1
        due == BlockRefreshDue(counter)
        cached == IF due
                  THEN detect_singapore_block_numbers(self.reader, frame, engine)
                  ELSE self.cached_block_regions
    IN  [self |-> [self EXCEPT !.block_counter = counter,
                               !.cached_block_regions = cached],
         frame |-> BlurRegions(frame, cached, "box51"),
         ran |-> due]

(* a failed refresh keeps the sign regions cached before it *)
BlurStreetSignsKeepStale(self, frame, cv) ==
    LET counter == self.sign_frame_counter + 1
        due == SignRefreshDue(counter)
        cached == IF due /\ ~cv.raises
                  THEN _detect_signs_singapore(frame, cv)
                  ELSE self.cached_sign_regions
    IN  [self |-> [self EXCEPT !.sign_frame_counter = counter,
                               !.cached_sign_regions = cached],
         frame |-> BlurRegions(frame, cached, "box21"),
         ran |-> due]

blur_street_signs(self, frame, cv) ==
    LET counter == self.sign_frame_counter + 1
        due == SignRefreshDue(counter)
        cached == IF due
                  THEN _detect_signs_singapore(frame, cv)
                  ELSE self.cached_sign_regions
    IN  [self |-> [self EXCEPT !.sign_frame_counter = counter,
                               !.cached_sign_regions = cached],
         frame |-> BlurRegions(frame, cached, "box21"),
         ran |-> due]

(***************************************************************************)
(* StreamSafeProcessor.process_frame.  detection_settings is a function    *)
(* from the keys it holds to booleans; env holds the outcomes the plate    *)
(* model, the OCR engine and OpenCV give in this call.  The caller's       *)
(* buffer is "frame"; frame.copy() allocates the buffer "img".  The result *)
(* is [raised, self, ret, heap, plates, ocr_ran, seg_ran, log]: ret names  *)
(* the returned buffer, heap holds the buffers after the call, log lists   *)
(* the detectors in the order they ran, each with the writes its input     *)
(* buffer already carried.                                                 *)
(***************************************************************************)
DictGetDefaultTrue(d, key, default) == IF key \in DOMAIN d THEN d[key] ELSE TRUE
DictGet(d, key, default) == IF key \in DOMAIN d THEN d[key] ELSE default

NoPlates == [branch |-> "none", regions |-> <<>>, failed |-> FALSE]

FrameNoCopy(heap) == [heap |-> heap, ref |-> "frame"]
FrameCopy(heap) ==
    [heap |-> [b \in {"frame", "img"} |-> heap["frame"]], ref |-> "img"]

StepPlates(m, env) ==
    Bind(blur_license_plates(m.self.license_plate_model, m.heap[m.img], env.plate), LAMBDA r :
        [m EXCEPT !.heap[m.img] = r.frame,
                  !.plates = [branch |-> r.branch, regions |-> r.regions,
                              failed |-> r.failed],
                  !.log = Append(@, [det |-> "license_plates",
                                     seen |-> m.heap[m.img].writes])])

StepBlocks(m, env) ==
    Bind(blur_address_numbers(m.self, m.heap[m.img], env.ocr), LAMBDA r :
        [m EXCEPT !.self = r.self,
                  !.heap[m.img] = r.frame,
                  !.ocr_ran = r.ran,
                  !.log = Append(@, [det |-> "block_numbers",
                                     seen |-> m.heap[m.img].writes])])

StepSigns(m, env) ==
    Bind(blur_street_signs(m.self, m.heap[m.img], env.cv), LAMBDA r :
        [m EXCEPT !.self = r.self,
                  !.heap[m.img] = r.frame,
                  !.seg_ran = r.ran,
                  !.log = Append(@, [det |-> "street_signs",
                                     seen |-> m.heap[m.img].writes])])

DetectorsSignsFirst(m, detection_settings, env) ==
    Bind(IF DictGet(detection_settings, "street_signs", FALSE)
         THEN StepSigns(m, env) ELSE m, LAMBDA m1 :
    Bind(IF DictGet(detection_settings, "block_numbers", FALSE)
         THEN StepBlocks(m1, env) ELSE m1, LAMBDA m2 :
    IF DictGet(detection_settings, "license_plates", FALSE)
    THEN StepPlates(m2, env) ELSE m2))

Detectors(m, detection_settings, env) ==
    Bind(IF DictGet(detection_settings, "license_plates", FALSE)
         THEN StepPlates(m, env) ELSE m, LAMBDA m1 :
    Bind(IF DictGet(detection_settings, "block_numbers", FALSE)
         THEN StepBlocks(m1, env) ELSE m1, LAMBDA m2 :
    IF DictGet(detection_settings, "street_signs", FALSE)
    THEN StepSigns(m2, env) ELSE m2))

ProcessResult(m) ==
    [raised |-> FALSE, self |-> m.self, ret |-> m.img, heap |-> m.heap,
     plates |-> m.plates, ocr_ran |-> m.ocr_ran, seg_ran |-> m.seg_ran,
     log |-> m.log]

process_frame(self, frame, detection_settings, env) ==
    IF IsNone(frame)
    THEN \* frame.copy() raises AttributeError
         [raised |-> TRUE, self |-> self, ret |-> "none",
          heap |-> [b \in {"frame"} |-> frame], plates |-> NoPlates,
          ocr_ran |-> FALSE, seg_ran |-> FALSE, log |-> <<>>]
    ELSE Bind(FrameCopy([b \in {"frame"} |-> frame]), LAMBDA c :
         Bind(Detectors([self |-> self, heap |-> c.heap, img |-> c.ref,
                         plates |-> NoPlates, ocr_ran |-> FALSE,
                         seg_ran |-> FALSE, log |-> <<>>],
                        detection_settings, env),
              ProcessResult))

(***************************************************************************)
VARIABLES
    pipeline,              \* "unconstructed", "constructed" or "failed"
    license_plate_model,   \* "None" or "YOLO"
    reader,                \* ocr_detector.reader: "None" or "Reader"
    block_counter,
    cached_block_regions,
    sign_frame_counter,
    cached_sign_regions,
    call,                  \* the last process_frame call, NoCall before it
    hist,                  \* calls returned per enabled detector, detector runs,
                           \* per detector the result of its last detection
                           \* cycle that did not fail and the failed cycles
                           \* since (counted up to 2)
    budget,                \* calls on arbitrary inputs still allowed
    probe                  \* a function applied on its own: arguments, result

vars == << pipeline, license_plate_model, reader, block_counter,
           cached_block_regions, sign_frame_counter, cached_sign_regions,
           call, hist, budget, probe >>

Self == [license_plate_model |-> license_plate_model,
         reader |-> reader,
         block_counter |-> block_counter,
         cached_block_regions |-> cached_block_regions,
         sign_frame_counter |-> sign_frame_counter,
         cached_sign_regions |-> cached_sign_regions]

NoCall == [made |-> FALSE]
NoHist == [block_calls |-> 0, sign_calls |-> 0, ocr_runs |-> 0, seg_runs |-> 0,
           block_last_ok |-> <<>>, block_fails |-> 0,
           sign_last_ok |-> <<>>, sign_fails |-> 0]
NoProbe == [fn |-> "none"]

(***************************************************************************)
(* Bounds and inputs.                                                      *)
(***************************************************************************)
MaxBlockCalls == 61     \* calls with block_numbers enabled, in a stream
MaxSignCalls == 31      \* calls with street_signs enabled, in a stream
MaxCalls == 2           \* calls on arbitrary inputs

Keys == {"license_plates", "block_numbers", "street_signs"}

(* every mapping that holds all three keys *)
FullSettings == [Keys -> BOOLEAN]

(* mappings with keys missing, and with a key the processor does not know *)
PartialSettings ==
    { <<>>,
      [block_numbers |-> TRUE],
      [street_signs |-> TRUE, faces |-> TRUE],
      [license_plates |-> TRUE, block_numbers |-> FALSE],
      [license_plates |-> TRUE, street_signs |-> TRUE, faces |-> FALSE],
      [faces |-> TRUE] }

AllSettings == FullSettings \cup PartialSettings

(* the settings of a stream: the counted detectors in every combination,   *)
(* and all three detectors                                                 *)
StreamSettings ==
    { s \in FullSettings :
        ~s.license_plates \/ (s.block_numbers /\ s.street_signs) }

StreamFrame == Frame(480, 640, "tex")

Frames == { NoneFrame,
            Frame(0, 640, "tex"),
            Frame(100, 100, "white"),
            Frame(200, 200, "tex"),
            Frame(200, 200, "white"),
            StreamFrame }

HasArea(frame) == frame.shape[1] > 0 /\ frame.shape[2] > 0

Rect(xa, ya, xb, yb) ==
    [isNone |-> FALSE, pts |-> << <<xa, ya>>, <<xb, ya>>, <<xb, yb>>, <<xa, yb>> >>]

(* outcomes of reader.readtext *)
EngineRaises == [raises |-> TRUE, results |-> <<>>]
EngineOne ==
    [raises |-> FALSE, results |->
       << [bbox |-> Rect(80, 80, 120, 120), text |-> <<"1", "O", "5">>, conf |-> 90] >>]
EngineOutcomes ==
    { EngineRaises,
      [raises |-> FALSE, results |-> <<>>],
      EngineOne,
      [raises |-> FALSE, results |->
         << [bbox |-> Rect(1200, 800, 1401, 881), text |-> <<"1", "2", "b">>, conf |-> 80],
            [bbox |-> Rect(20, 20, 60, 40), text |-> <<"7">>, conf |-> 40],
            [bbox |-> Rect(20, 20, 60, 40), text |-> <<"A", "1">>, conf |-> 95],
            [bbox |-> [isNone |-> TRUE, pts |-> <<>>], text |-> <<"9">>, conf |-> 95] >>] }

(* outcomes of license_plate_model.predict *)
PlateRaises == [raises |-> TRUE, boxes |-> <<>>]
PlateTwo ==
    [raises |-> FALSE, boxes |->
       << [box |-> <<201, 601, 441, 661>>, conf |-> 90],
          [box |-> <<20, 20, 100, 60>>, conf |-> 65] >>]
PlateNaN ==
    [raises |-> FALSE, boxes |->
       << [box |-> <<201, 601, 441, 661>>, conf |-> 90],
          [box |-> <<NaN, 20, 100, 60>>, conf |-> 90],
          [box |-> <<20, 20, 100, 60>>, conf |-> 95] >>]
PlateOutcomes ==
    { PlateRaises, [raises |-> FALSE, boxes |-> <<>>], PlateTwo, PlateNaN }

(* outcomes of the OpenCV calls of _detect_signs_singapore *)
CvRaises == [raises |-> TRUE, contours |-> <<>>]
CvOne ==
    [raises |-> FALSE, contours |-> << [area2 |-> 4000, rect |-> <<10, 10, 60, 30>>] >>]
CvOutcomes ==
    { CvRaises,
      [raises |-> FALSE, contours |-> <<>>],
      CvOne,
      [raises |-> FALSE, contours |->
         << [area2 |-> 3200, rect |-> <<5, 5, 40, 40>>],
            [area2 |-> 9001, rect |-> <<300, 200, 120, 40>>],
            [area2 |-> 1600, rect |-> <<20, 50, 60, 20>>] >>] }

Oracles == [engine |-> EngineOutcomes, plate |-> PlateOutcomes, cv |-> CvOutcomes]
StreamOracles ==
    [engine |-> {EngineRaises, EngineOne}, plate |-> {PlateTwo},
     cv |-> {CvRaises, CvOne}]

ContourInFrame(c, frame) ==
    /\ c.rect[1] + c.rect[3] <= frame.shape[2]
    /\ c.rect[2] + c.rect[4] <= frame.shape[1]

(* what each collaborator can answer on this frame: on a frame without     *)
(* area the engine, the model and the OpenCV calls raise; a contour lies   *)
(* in the frame                                                            *)
EngineOn(oracles, frame) ==
    IF HasArea(frame) THEN oracles.engine ELSE {EngineRaises}
PlateOn(oracles, frame) ==
    IF HasArea(frame) THEN oracles.plate ELSE {PlateRaises}
CvOn(oracles, frame) ==
    IF HasArea(frame)
    THEN { c \in oracles.cv :
             \A i \in 1..Len(c.contours) : ContourInFrame(c.contours[i], frame) }
    ELSE {CvRaises}

(* the outcomes drawn for one call: a collaborator that the call does not  *)
(* reach answers nothing worth telling apart                               *)
Envs(oracles, self, frame, settings) ==
    IF IsNone(frame)
    THEN { [plate |-> PlateRaises, ocr |-> EngineRaises, cv |-> CvRaises] }
    ELSE
    LET usesPlate == DictGet(settings, "license_plates", FALSE)
                        /\ self.license_plate_model # "None"
        usesOcr == DictGet(settings, "block_numbers", FALSE)
                        /\ BlockRefreshDue(self.block_counter + 1)
                        /\ self.reader # "None"
        usesCv == DictGet(settings, "street_signs", FALSE)
                        /\ SignRefreshDue(self.sign_frame_counter + 1)
    IN  { [plate |-> p, ocr |-> e, cv |-> c] :
            p \in (IF usesPlate THEN PlateOn(oracles, frame) ELSE {PlateRaises}),
            e \in (IF usesOcr THEN EngineOn(oracles, frame) ELSE {EngineRaises}),
            c \in (IF usesCv THEN CvOn(oracles, frame) ELSE {CvRaises}) }

(***************************************************************************)
(* StreamSafeProcessor.__init__: the model loads or not (ultralytics       *)
(* missing, or YOLO(...) raises), the OCR reader initialises or not; both  *)
(* failures are caught.                                                    *)
(***************************************************************************)
InitOutcomeStrict(model_loads, ocr_loads) ==
    IF model_loads /\ ocr_loads THEN "constructed" ELSE "failed"
InitOutcome(model_loads, ocr_loads) == "constructed"

Construct ==
    /\ pipeline = "unconstructed"
    /\ \E model_loads \in BOOLEAN, ocr_loads \in BOOLEAN :
          /\ pipeline' = InitOutcome(model_loads, ocr_loads)
          /\ license_plate_model' = IF model_loads THEN "YOLO" ELSE "None"
          /\ reader' = IF ocr_loads THEN "Reader" ELSE "None"
    /\ block_counter' = 0
    /\ cached_block_regions' = <<>>
    /\ sign_frame_counter' = 0
    /\ cached_sign_regions' = <<>>
    /\ UNCHANGED << call, hist, budget, probe >>

(***************************************************************************)
(* Calls of process_frame on the constructed processor.                    *)
(***************************************************************************)
Bump(n, flag) == IF flag THEN n + 1 ELSE n

CallRecord(before, frame, settings, env, r) ==
    [made |-> TRUE, before |-> before, frame |-> frame, settings |-> settings,
     env |-> env, raised |-> r.raised, ret |-> r.ret, heap |-> r.heap, plates |-> r.plates,
     ocr_ran |-> r.ocr_ran, seg_ran |-> r.seg_ran, log |-> r.log]

(* the detection cycle of a call failed: the engine, or OpenCV, raised *)
OcrCycleFailed(self, env) == self.reader # "None" /\ env.ocr.raises
SegCycleFailed(env) == env.cv.raises

HistAfter(h, self, settings, env, r) ==
    [block_calls |-> Bump(h.block_calls,
                          ~r.raised /\ DictGet(settings, "block_numbers", FALSE)),
     sign_calls |-> Bump(h.sign_calls,
                         ~r.raised /\ DictGet(settings, "street_signs", FALSE)),
     ocr_runs |-> Bump(h.ocr_runs, r.ocr_ran),
     seg_runs |-> Bump(h.seg_runs, r.seg_ran),
     block_last_ok |-> IF r.ocr_ran /\ ~OcrCycleFailed(self, env)
                       THEN detect_singapore_block_numbers(
                                self.reader, r.heap[r.ret], env.ocr)
                       ELSE h.block_last_ok,
     block_fails |-> IF ~r.ocr_ran THEN h.block_fails
                     ELSE IF OcrCycleFailed(self, env) THEN Min(h.block_fails + 1, 2)
                     ELSE 0,
     sign_last_ok |-> IF r.seg_ran /\ ~SegCycleFailed(env)
                      THEN _detect_signs_singapore(r.heap[r.ret], env.cv)
                      ELSE h.sign_last_ok,
     sign_fails |-> IF ~r.seg_ran THEN h.sign_fails
                    ELSE IF SegCycleFailed(env) THEN Min(h.sign_fails + 1, 2)
                    ELSE 0]

(* the processor's fields, the call record and the counts after one call *)
Call(frame, settings, env) ==
    \E r \in {process_frame(Self, frame, settings, env)} :
        /\ license_plate_model' = r.self.license_plate_model
        /\ reader' = r.self.reader
        /\ block_counter' = r.self.block_counter
        /\ cached_block_regions' = r.self.cached_block_regions
        /\ sign_frame_counter' = r.self.sign_frame_counter
        /\ cached_sign_regions' = r.self.cached_sign_regions
        /\ call' = CallRecord(Self, frame, settings, env, r)
        /\ hist' = HistAfter(hist, Self, settings, env, r)

(* one call on any input *)
ProcessFrame ==
    /\ pipeline = "constructed"
    /\ budget > 0
    /\ budget' = budget - 1
    /\ \E frame \in Frames, settings \in AllSettings :
          \E env \in Envs(Oracles, Self, frame, settings) :
              Call(frame, settings, env)
    /\ UNCHANGED << pipeline, probe >>

(* one call on a frame of a stream *)
ProcessStream ==
    /\ pipeline = "constructed"
    /\ \E settings \in StreamSettings :
          /\ settings.block_numbers => block_counter < MaxBlockCalls
          /\ settings.street_signs => sign_frame_counter < MaxSignCalls
          /\ \E env \in Envs(StreamOracles, Self, StreamFrame, settings) :
                Call(StreamFrame, settings, env)
    /\ UNCHANGED << pipeline, budget, probe >>

(***************************************************************************)
(* A run of n calls on the frames of a stream, all with the same settings  *)
(* and the same answers of the collaborators: process_frame applied n      *)
(* times.  The state after it is the state after its last call.            *)
(***************************************************************************)
RunLengths == {14, 29}
RunSettings == { s \in FullSettings : s.block_numbers \/ s.street_signs }

RunStep(st, frame, settings, env) ==
    Bind(process_frame(st.self, frame, settings, env), LAMBDA r :
        [self |-> r.self,
         hist |-> HistAfter(st.hist, st.self, settings, env, r),
         call |-> CallRecord(st.self, frame, settings, env, r)])

RECURSIVE RunCalls(_, _, _, _, _)
RunCalls(st, n, frame, settings, env) ==
    IF n = 0 THEN st
    ELSE Bind(RunStep(st, frame, settings, env),
              LAMBDA next : RunCalls(next, n - 1, frame, settings, env))

ProcessRun ==
    /\ pipeline = "constructed"
    /\ call = NoCall
    /\ \E n \in RunLengths, settings \in RunSettings :
          \E env \in [plate : {PlateTwo}, ocr : {EngineOne}, cv : {CvRaises, CvOne}] :
          \E st \in {RunCalls([self |-> Self, hist |-> hist, call |-> call],
                              n, StreamFrame, settings, env)} :
              /\ license_plate_model' = st.self.license_plate_model
              /\ reader' = st.self.reader
              /\ block_counter' = st.self.block_counter
              /\ cached_block_regions' = st.self.cached_block_regions
              /\ sign_frame_counter' = st.self.sign_frame_counter
              /\ cached_sign_regions' = st.self.cached_sign_regions
              /\ call' = st.call
              /\ hist' = st.hist
    /\ UNCHANGED << pipeline, budget, probe >>

Init ==
    /\ pipeline = "unconstructed"
    /\ license_plate_model = "None"
    /\ reader = "None"
    /\ block_counter = 0
    /\ cached_block_regions = <<>>
    /\ sign_frame_counter = 0
    /\ cached_sign_regions = <<>>
    /\ call = NoCall
    /\ hist = NoHist
    /\ budget = MaxCalls
    /\ probe = NoProbe

(* construction, perhaps a run of a stream, then calls on any input *)
Next == Construct \/ ProcessRun \/ ProcessFrame
Spec == Init /\ [][Next]_vars

(* construction, then a stream called frame by frame *)
NextStream == Construct \/ ProcessStream
SpecStream == Init /\ [][NextStream]_vars

(***************************************************************************)
(* _extract_bbox_safely applied on its own to a raw box and a frame shape. *)
(***************************************************************************)
Coords == {-41, -1, 0, 1, 21, 60, 141}      \* half pixels
Dims == {0, 1, 2, 25, 35, 50, 100}

Boxes == { Rect(xa, ya, xb, yb) : xa \in Coords, xb \in Coords,
                                  ya \in {-1, 21, 141}, yb \in {0, 60} }
            \cup { Rect(80, 80, 120, 120) }

InitExtract ==
    /\ pipeline = "unconstructed"
    /\ license_plate_model = "None"
    /\ reader = "None"
    /\ block_counter = 0
    /\ cached_block_regions = <<>>
    /\ sign_frame_counter = 0
    /\ cached_sign_regions = <<>>
    /\ call = NoCall
    /\ hist = NoHist
    /\ budget = 0
    /\ \E bbox \in Boxes, h \in Dims, w \in Dims :
          probe = [fn |-> "extract", bbox |-> bbox, shape |-> <<h, w, 3>>,
                   done |-> FALSE, out |-> NoRegion]

ApplyExtract ==
    /\ probe.fn = "extract"
    /\ ~probe.done
    /\ probe' = [probe EXCEPT !.done = TRUE,
                              !.out = _extract_bbox_safely(probe.bbox, probe.shape)]
    /\ UNCHANGED << pipeline, license_plate_model, reader, block_counter,
                    cached_block_regions, sign_frame_counter, cached_sign_regions,
                    call, hist, budget >>

NextExtract == ApplyExtract
SpecExtract == InitExtract /\ [][NextExtract]_vars

(***************************************************************************)
(* _is_singapore_block_number and _clean_text applied on their own to a    *)
(* text.  The processor is not constructed in these runs.                  *)
(***************************************************************************)
MaxTextLen == 5

TextChars == {"1", "2", "A", "o", "B", "\n", "_", "-"}
Texts == UNION { [1..n -> TextChars] : n \in 0..MaxTextLen }

NoPipeline ==
    /\ pipeline = "unconstructed"
    /\ license_plate_model = "None"
    /\ reader = "None"
    /\ block_counter = 0
    /\ cached_block_regions = <<>>
    /\ sign_frame_counter = 0
    /\ cached_sign_regions = <<>>
    /\ call = NoCall
    /\ hist = NoHist
    /\ budget = 0

InitMatch ==
    /\ NoPipeline
    /\ \E text \in Texts : probe = [fn |-> "match", text |-> text,
                                    done |-> FALSE, out |-> FALSE]

ApplyMatch ==
    /\ probe.fn = "match"
    /\ ~probe.done
    /\ probe' = [probe EXCEPT !.done = TRUE,
                              !.out = _is_singapore_block_number(probe.text)]
    /\ UNCHANGED << pipeline, license_plate_model, reader, block_counter,
                    cached_block_regions, sign_frame_counter, cached_sign_regions,
                    call, hist, budget >>

NextMatch == ApplyMatch
SpecMatch == InitMatch /\ [][NextMatch]_vars

(* _clean_text applied to a text, and then to its own result *)
InitClean ==
    /\ NoPipeline
    /\ \E text \in Texts : probe = [fn |-> "clean", text |-> text,
                                    stage |-> "raw", once |-> <<>>, twice |-> <<>>]

ApplyClean ==
    /\ probe.fn = "clean"
    /\ probe.stage \in {"raw", "once"}
    /\ probe' = IF probe.stage = "raw"
                THEN [probe EXCEPT !.stage = "once", !.once = _clean_text(probe.text)]
                ELSE [probe EXCEPT !.stage = "twice", !.twice = _clean_text(probe.once)]
    /\ UNCHANGED << pipeline, license_plate_model, reader, block_counter,
                    cached_block_regions, sign_frame_counter, cached_sign_regions,
                    call, hist, budget >>

NextClean == ApplyClean
SpecClean == InitClean /\ [][NextClean]_vars

(***************************************************************************)
(* Two threads calling process_frame on one processor with one counted     *)
(* detector enabled and the others disabled.  Each thread works on its own *)
(* copy of its frame; the counter and the cache of the detector are        *)
(* fields of the shared processor.  A call of blur_address_numbers (or     *)
(* blur_street_signs) is the steps                                         *)
(*     load:    tmp = self.counter                                         *)
(*     store:   self.counter = tmp + 1                                     *)
(*     test:    if self.counter % period == 0                              *)
(*     refresh: self.cached_regions = detect(frame)                        *)
(*     blur:    blur the cached regions on the thread's own buffer         *)
(* and nothing in the code keeps a thread from running between two of      *)
(* them.  probe holds the threads' positions and what has been counted:    *)
(* calls entered, refreshes run, whether two calls ever overlapped.        *)
(***************************************************************************)
MaxThreadCalls == 31

Threads == {"t1", "t2"}
CountedDetectors == {"block_numbers", "street_signs"}

Counter(det) == IF det = "block_numbers" THEN block_counter ELSE sign_frame_counter
RefreshDue(det, counter) ==
    IF det = "block_numbers" THEN BlockRefreshDue(counter) ELSE SignRefreshDue(counter)
Period(det) == IF det = "block_numbers" THEN BlockPeriod ELSE SignPeriod

IncrementLost(tmp) == tmp
Increment(tmp) == tmp + 1

InitThreads ==
    /\ pipeline = "unconstructed"
    /\ license_plate_model = "None"
    /\ reader = "None"
    /\ block_counter = 0
    /\ cached_block_regions = <<>>
    /\ sign_frame_counter = 0
    /\ cached_sign_regions = <<>>
    /\ call = NoCall
    /\ hist = NoHist
    /\ budget = 0
    /\ \E det \in CountedDetectors :
          probe = [fn |-> "threads", det |-> det,
                   pc |-> [t \in Threads |-> "idle"],
                   tmp |-> [t \in Threads |-> 0],
                   calls |-> 0, refreshes |-> 0, overlapped |-> FALSE]

ThreadFrame == << pipeline, license_plate_model, reader, call, hist, budget >>

(* process_frame is entered: frame.copy(), the disabled detectors skipped *)
Enter(t) ==
    /\ pipeline = "constructed"
    /\ probe.fn = "threads"
    /\ probe.pc[t] = "idle"
    /\ probe.calls < MaxThreadCalls
    /\ probe' = [probe EXCEPT !.pc[t] = "load",
                              !.calls = @ + 1,
                              !.overlapped = @ \/ \E u \in Threads : probe.pc[u] # "idle"]
    /\ UNCHANGED << block_counter, cached_block_regions, sign_frame_counter,
                    cached_sign_regions >>
    /\ UNCHANGED ThreadFrame

(* self.counter += 1: the read *)
Load(t) ==
    /\ probe.fn = "threads"
    /\ probe.pc[t] = "load"
    /\ probe' = [probe EXCEPT !.pc[t] = "store", !.tmp[t] = Counter(probe.det)]
    /\ UNCHANGED << block_counter, cached_block_regions, sign_frame_counter,
                    cached_sign_regions >>
    /\ UNCHANGED ThreadFrame

(* self.counter += 1: the write *)
Store(t) ==
    /\ probe.fn = "threads"
    /\ probe.pc[t] = "store"
    /\ block_counter' = IF probe.det = "block_numbers"
                        THEN Increment(probe.tmp[t]) ELSE block_counter
    /\ sign_frame_counter' = IF probe.det = "street_signs"
                             THEN Increment(probe.tmp[t]) ELSE sign_frame_counter
    /\ probe' = [probe EXCEPT !.pc[t] = "test", !.tmp[t] = 0]
    /\ UNCHANGED << cached_block_regions, cached_sign_regions >>
    /\ UNCHANGED ThreadFrame

(* if self.counter % period == 0: the field is read again *)
Test(t) ==
    /\ probe.fn = "threads"
    /\ probe.pc[t] = "test"
    /\ probe' = [probe EXCEPT !.pc[t] = IF RefreshDue(probe.det, Counter(probe.det))
                                        THEN "refresh" ELSE "blur"]
    /\ UNCHANGED << block_counter, cached_block_regions, sign_frame_counter,
                    cached_sign_regions >>
    /\ UNCHANGED ThreadFrame

(* the detector runs and the cache is replaced *)
Refresh(t) ==
    /\ probe.fn = "threads"
    /\ probe.pc[t] = "refresh"
    /\ \E engine \in StreamOracles.engine, cv \in StreamOracles.cv :
          /\ cached_block_regions' =
                IF probe.det = "block_numbers"
                THEN detect_singapore_block_numbers(reader, StreamFrame, engine)
                ELSE cached_block_regions
          /\ cached_sign_regions' =
                IF probe.det = "street_signs"
                THEN _detect_signs_singapore(StreamFrame, cv)
                ELSE cached_sign_regions
    /\ probe' = [probe EXCEPT !.pc[t] = "blur", !.refreshes = @ + 1]
    /\ UNCHANGED << block_counter, sign_frame_counter >>
    /\ UNCHANGED ThreadFrame

(* the cached regions are blurred on the thread's buffer; the call returns *)
Blur(t) ==
    /\ probe.fn = "threads"
    /\ probe.pc[t] = "blur"
    /\ probe' = [probe EXCEPT !.pc[t] = "idle"]
    /\ UNCHANGED << block_counter, cached_block_regions, sign_frame_counter,
                    cached_sign_regions >>
    /\ UNCHANGED ThreadFrame

NextThreads ==
    \/ Construct
    \/ \E t \in Threads : Enter(t)
    \/ \E t \in Threads : Load(t)
    \/ \E t \in Threads : Store(t)
    \/ \E t \in Threads : Test(t)
    \/ \E t \in Threads : Refresh(t)
    \/ \E t \in Threads : Blur(t)
SpecThreads == InitThreads /\ [][NextThreads]_vars

(***************************************************************************)
(* Two StreamSafeProcessor instances, called in any interleaving.  The     *)
(* fields __init__ assigns (self.block_counter, self.cached_block_regions, *)
(* self.sign_frame_counter, self.cached_sign_regions, the model and the    *)
(* reader) are attributes of the instance; the class and the module hold   *)
(* no counter and no cache.  probe.inst maps an instance to its fields,    *)
(* probe.acted is the instance the last step constructed or called.        *)
(***************************************************************************)
MaxInstanceCalls == 31

Instances == {"a", "b"}

Unconstructed ==
    [constructed |-> FALSE, license_plate_model |-> "None", reader |-> "None",
     block_counter |-> 0, cached_block_regions |-> <<>>,
     sign_frame_counter |-> 0, cached_sign_regions |-> <<>>]

Fields(rec) ==
    [license_plate_model |-> rec.license_plate_model,
     reader |-> rec.reader,
     block_counter |-> rec.block_counter,
     cached_block_regions |-> rec.cached_block_regions,
     sign_frame_counter |-> rec.sign_frame_counter,
     cached_sign_regions |-> rec.cached_sign_regions]

(* every key true, every key false *)
InstanceSettings == { s \in FullSettings : \A j, k \in Keys : s[j] = s[k] }

(* the counters and caches as attributes of the class *)
SetAttrsOnClass(inst, i, self) ==
    [j \in DOMAIN inst |->
        [inst[j] EXCEPT !.block_counter = self.block_counter,
                        !.cached_block_regions = self.cached_block_regions,
                        !.sign_frame_counter = self.sign_frame_counter,
                        !.cached_sign_regions = self.cached_sign_regions]]
(* the attribute writes of a call on instance i land in instance i *)
SetAttrs(inst, i, self) ==
    [inst EXCEPT ![i] = [constructed |-> TRUE,
                         license_plate_model |-> self.license_plate_model,
                         reader |-> self.reader,
                         block_counter |-> self.block_counter,
                         cached_block_regions |-> self.cached_block_regions,
                         sign_frame_counter |-> self.sign_frame_counter,
                         cached_sign_regions |-> self.cached_sign_regions]]

InitInstances ==
    /\ NoPipeline
    /\ probe = [fn |-> "instances", inst |-> [i \in Instances |-> Unconstructed],
                acted |-> "none"]

ConstructInstance(i) ==
    /\ probe.fn = "instances"
    /\ ~probe.inst[i].constructed
    /\ \E model_loads \in BOOLEAN, ocr_loads \in BOOLEAN :
          probe' = [probe EXCEPT
                      !.inst[i] = [Unconstructed EXCEPT
                          !.constructed = TRUE,
                          !.license_plate_model = IF model_loads THEN "YOLO" ELSE "None",
                          !.reader = IF ocr_loads THEN "Reader" ELSE "None"],
                      !.acted = i]
    /\ UNCHANGED << pipeline, license_plate_model, reader, block_counter,
                    cached_block_regions, sign_frame_counter, cached_sign_regions,
                    call, hist, budget >>

CallInstance(i) ==
    /\ probe.fn = "instances"
    /\ probe.inst[i].constructed
    /\ \E settings \in InstanceSettings :
          /\ settings.block_numbers => probe.inst[i].block_counter < MaxInstanceCalls
          /\ \E env \in Envs(StreamOracles, Fields(probe.inst[i]), StreamFrame, settings) :
             \E r \in {process_frame(Fields(probe.inst[i]), StreamFrame, settings, env)} :
                probe' = [probe EXCEPT !.inst = SetAttrs(probe.inst, i, r.self),
                                       !.acted = i]
    /\ UNCHANGED << pipeline, license_plate_model, reader, block_counter,
                    cached_block_regions, sign_frame_counter, cached_sign_regions,
                    call, hist, budget >>

NextInstances ==
    \/ \E i \in Instances : ConstructInstance(i)
    \/ \E i \in Instances : CallInstance(i)
SpecInstances == InitInstances /\ [][NextInstances]_vars

(***************************************************************************)
(* detect_singapore_block_numbers applied on its own to a batch of         *)
(* detections the engine returns for a 100x100 frame, and                  *)
(* _extract_bbox_safely applied to the box of each detection.              *)
(***************************************************************************)
MaxBatch == 5

NoBox == [isNone |-> TRUE, pts |-> <<>>]
ThreePoints == [isNone |-> FALSE, pts |-> << <<80, 80>>, <<120, 80>>, <<120, 120>> >>]
LongPoint ==
    [isNone |-> FALSE,
     pts |-> << <<80, 80>>, <<120, 80, 0>>, <<120, 120>>, <<80, 120>> >>]
TextCoordinate ==
    [isNone |-> FALSE,
     pts |-> << <<80, 80>>, <<120, 80>>, <<120, NonNumeric>>, <<80, 120>> >>]

Detections ==
    { [bbox |-> Rect(80, 80, 120, 120), text |-> <<"1", "O", "5">>, conf |-> 90],
      [bbox |-> Rect(20, 20, 60, 40), text |-> <<"7">>, conf |-> 41],
      [bbox |-> Rect(20, 20, 60, 40), text |-> <<"7">>, conf |-> 40],
      [bbox |-> Rect(80, 80, 120, 120), text |-> <<"A", "1">>, conf |-> 95],
      [bbox |-> NoBox, text |-> <<"9">>, conf |-> 95],
      [bbox |-> ThreePoints, text |-> <<"9">>, conf |-> 95],
      [bbox |-> LongPoint, text |-> <<"9">>, conf |-> 95],
      [bbox |-> TextCoordinate, text |-> <<"9">>, conf |-> 95],
      [bbox |-> Rect(80, 80, 120, 120), text |-> <<"9">>, conf |-> ConfNone] }

Batches == UNION { [1..n -> Detections] : n \in 0..MaxBatch }

DetectFrame == Frame(100, 100, "white")

InitDetect ==
    /\ NoPipeline
    /\ \E results \in Batches, raises \in BOOLEAN :
          /\ raises => results = <<>>
          /\ probe = [fn |-> "detect", raises |-> raises, results |-> results,
                      done |-> FALSE, out |-> <<>>, coords |-> <<>>]

ApplyDetect ==
    /\ probe.fn = "detect"
    /\ ~probe.done
    /\ probe' = [probe EXCEPT
                   !.done = TRUE,
                   !.out = detect_singapore_block_numbers(
                              "Reader", DetectFrame,
                              [raises |-> probe.raises, results |-> probe.results]),
                   !.coords = [i \in 1..Len(probe.results) |->
                                 _extract_bbox_safely(probe.results[i].bbox,
                                                      DetectFrame.shape)]]
    /\ UNCHANGED << pipeline, license_plate_model, reader, block_counter,
                    cached_block_regions, sign_frame_counter, cached_sign_regions,
                    call, hist, budget >>

NextDetect == ApplyDetect
SpecDetect == InitDetect /\ [][NextDetect]_vars

(***************************************************************************)
(* _detect_signs_singapore applied on its own to the contours OpenCV       *)
(* finds in a 480x640 frame, or to a failure of an OpenCV call.            *)
(***************************************************************************)
MaxContours == 4

Contours ==
    { [area2 |-> 4000, rect |-> <<10, 10, 60, 30>>],      \* area 2000, ratio 2
      [area2 |-> 1601, rect |-> <<300, 200, 31, 20>>],    \* area 800.5, ratio 1.55
      [area2 |-> 49999, rect |-> <<100, 100, 129, 20>>],  \* area 24999.5, ratio 6.45
      [area2 |-> 1600, rect |-> <<20, 50, 60, 20>>],      \* area 800
      [area2 |-> 50000, rect |-> <<20, 50, 60, 20>>],     \* area 25000
      [area2 |-> 4000, rect |-> <<20, 50, 30, 20>>],      \* ratio 1.5
      [area2 |-> 4000, rect |-> <<20, 50, 130, 20>>],     \* ratio 6.5
      [area2 |-> 4000, rect |-> <<5, 5, 40, 40>>] }       \* ratio 1

ContourBatches == UNION { [1..n -> Contours] : n \in 0..MaxContours }

InitSigns ==
    /\ NoPipeline
    /\ \E contours \in ContourBatches, raises \in BOOLEAN :
          /\ raises => contours = <<>>
          /\ probe = [fn |-> "signs", raises |-> raises, contours |-> contours,
                      done |-> FALSE, out |-> <<>>]

ApplySigns ==
    /\ probe.fn = "signs"
    /\ ~probe.done
    /\ probe' = [probe EXCEPT
                   !.done = TRUE,
                   !.out = _detect_signs_singapore(
                              StreamFrame,
                              [raises |-> probe.raises, contours |-> probe.contours])]
    /\ UNCHANGED << pipeline, license_plate_model, reader, block_counter,
                    cached_block_regions, sign_frame_counter, cached_sign_regions,
                    call, hist, budget >>

NextSigns == ApplySigns
SpecSigns == InitSigns /\ [][NextSigns]_vars

(***************************************************************************)
(* The job queue of the dashboard (app/hooks/use_job.py).  A Job object is *)
(* a record of its status and its progress, in percent: the progress is a  *)
(* float that only takes the values 0.0, 5.0, ..., 100.0, which integers   *)
(* represent exactly.  A Job's id is the rank of its creation (uuid4 gives *)
(* every new Job an id no other has).  A queue is the Job objects created  *)
(* so far (heap), the ids that are keys of JobQueue.jobs, and job_history. *)
(***************************************************************************)
PENDING == "pending"
RUNNING == "running"
COMPLETED == "completed"
FAILED == "failed"
CANCELLED == "cancelled"
JobStatus == { PENDING, RUNNING, COMPLETED, FAILED, CANCELLED }

Job == [status |-> PENDING, progress |-> 0]
NoJob == [status |-> "None", progress |-> 0]

start(job) == [job EXCEPT !.status = RUNNING]
complete(job) == [job EXCEPT !.status = COMPLETED, !.progress = 100]
fail(job) == [job EXCEPT !.status = FAILED]
cancel(job) == [job EXCEPT !.status = CANCELLED]
update_progress(job, progress) ==
    [job EXCEPT !.progress = Max(0, Min(100, progress))]

max_history == 100

JobQueue == [heap |-> <<>>, jobs |-> {}, job_history |-> <<>>]

(* add_job that deletes the job of the dropped id whatever its status *)
AddJobDropsAny(q, id) ==
    LET appended == Append(q.job_history, id)
        jobs == q.jobs \cup {id}
    IN  IF Len(appended) > max_history
        THEN [q EXCEPT !.job_history = Tail(appended),
                       !.jobs = jobs \ {Head(appended)}]
        ELSE [q EXCEPT !.job_history = appended, !.jobs = jobs]

(* self.jobs[job.id] = job; append; pop(0) past max_history, and del the   *)
(* popped id's job when it has ended                                       *)
add_job(q, id) ==
    LET appended == Append(q.job_history, id)
        jobs == q.jobs \cup {id}
    IN  IF Len(appended) > max_history
        THEN LET old_job_id == Head(appended)
             IN  [q EXCEPT
                    !.job_history = Tail(appended),
                    !.jobs = IF /\ old_job_id \in jobs
                                /\ q.heap[old_job_id].status
                                       \in {COMPLETED, FAILED, CANCELLED}
                             THEN jobs \ {old_job_id}
                             ELSE jobs]
        ELSE [q EXCEPT !.job_history = appended, !.jobs = jobs]

get_job(q, job_id) == IF job_id \in q.jobs THEN q.heap[job_id] ELSE NoJob

(* the guard without the test of the status *)
CancellableAlways(job) == job # NoJob
Cancellable(job) == job # NoJob /\ job.status \in {PENDING, RUNNING}

(* cancel_job that only cancels a job that has not started *)
CancelJobPendingOnly(q, job_id) ==
    IF get_job(q, job_id) # NoJob /\ get_job(q, job_id).status = PENDING
    THEN [queue |-> [q EXCEPT !.heap[job_id] = cancel(@)], ret |-> "True"]
    ELSE [queue |-> q, ret |-> "False"]
cancel_job(q, job_id) ==
    IF Cancellable(get_job(q, job_id))
    THEN [queue |-> [q EXCEPT !.heap[job_id] = cancel(@)], ret |-> "True"]
    ELSE [queue |-> q, ret |-> "False"]

(* a step of 10 *)
NextProgressDouble(progress) == Min(100, progress + 10)
(* min(100, job.progress + 5) *)
NextProgress(progress) == Min(100, progress + 5)

simulate_job_progress(q, job_id) ==
    LET job == get_job(q, job_id)
    IN  IF job # NoJob /\ job.status = PENDING
        THEN [q EXCEPT !.heap[job_id] = start(@)]
        ELSE IF job # NoJob /\ job.status = RUNNING
        THEN IF job.progress < 100
             THEN [q EXCEPT !.heap[job_id] =
                                update_progress(@, NextProgress(job.progress))]
             ELSE [q EXCEPT !.heap[job_id] = complete(@)]
        ELSE q

(* create_video_processing_job: a new Job, with the defaults *)
create_video_processing_job(q) == [q EXCEPT !.heap = Append(@, Job)]

(***************************************************************************)
(* The hook: any sequence of submit_job, cancel_job, simulate_job_progress *)
(* on the queue of the session, and Job.fail on a Job object.              *)
(***************************************************************************)
MaxSubmits == 2
JobIds == {1, 2}
CallIds == JobIds \cup {0}      \* 0 is the id of no Job

JobsFrame ==
    UNCHANGED << pipeline, license_plate_model, reader, block_counter,
                 cached_block_regions, sign_frame_counter, cached_sign_regions,
                 call, hist, budget >>

InitJobs ==
    /\ NoPipeline
    /\ probe = [fn |-> "jobs", queue |-> JobQueue,
                op |-> [name |-> "none", id |-> 0], ret |-> "None"]

SubmitJob ==
    /\ probe.fn = "jobs"
    /\ Len(probe.queue.job_history) < MaxSubmits
    /\ \/ /\ Len(probe.queue.heap) < Cardinality(JobIds)
          /\ \E q \in { create_video_processing_job(probe.queue) } :
                probe' = [probe EXCEPT
                            !.queue = add_job(q, Len(q.heap)),
                            !.op = [name |-> "submit_job", id |-> Len(q.heap)],
                            !.ret = ToString(Len(q.heap))]
       \/ \E id \in 1..Len(probe.queue.heap) :
             probe' = [probe EXCEPT
                         !.queue = add_job(probe.queue, id),
                         !.op = [name |-> "submit_job", id |-> id],
                         !.ret = ToString(id)]
    /\ JobsFrame

CancelJob ==
    /\ probe.fn = "jobs"
    /\ \E job_id \in CallIds :
       \E r \in { cancel_job(probe.queue, job_id) } :
          probe' = [probe EXCEPT
                      !.queue = r.queue,
                      !.op = [name |-> "cancel_job", id |-> job_id],
                      !.ret = r.ret]
    /\ JobsFrame

SimulateJobProgress ==
    /\ probe.fn = "jobs"
    /\ \E job_id \in CallIds :
          probe' = [probe EXCEPT
                      !.queue = simulate_job_progress(probe.queue, job_id),
                      !.op = [name |-> "simulate_job_progress", id |-> job_id],
                      !.ret = "None"]
    /\ JobsFrame

FailJob ==
    /\ probe.fn = "jobs"
    /\ \E id \in 1..Len(probe.queue.heap) :
          probe' = [probe EXCEPT
                      !.queue.heap[id] = fail(@),
                      !.op = [name |-> "fail", id |-> id],
                      !.ret = "None"]
    /\ JobsFrame

NextJobs == SubmitJob \/ CancelJob \/ SimulateJobProgress \/ FailJob
SpecJobs == InitJobs /\ [][NextJobs]_vars

(***************************************************************************)
(* The queue past max_history: new jobs are added one after another, and   *)
(* between two additions the first job is started, advanced, cancelled or  *)
(* failed, so that the first id to leave job_history is met in every       *)
(* status; the ids that leave after it belong to PENDING jobs.             *)
(***************************************************************************)
MaxAdds == 102
QueueIds == {1}

InitQueue ==
    /\ NoPipeline
    /\ probe = [fn |-> "queue", queue |-> JobQueue,
                op |-> [name |-> "none", id |-> 0]]

AddJob ==
    /\ probe.fn = "queue"
    /\ Len(probe.queue.heap) < MaxAdds
    /\ \E q \in { create_video_processing_job(probe.queue) } :
          probe' = [probe EXCEPT
                      !.queue = add_job(q, Len(q.heap)),
                      !.op = [name |-> "add_job", id |-> Len(q.heap)]]
    /\ JobsFrame

QueueCancel ==
    /\ probe.fn = "queue"
    /\ \E job_id \in QueueIds :
          probe' = [probe EXCEPT
                      !.queue = cancel_job(probe.queue, job_id).queue,
                      !.op = [name |-> "cancel_job", id |-> job_id]]
    /\ JobsFrame

QueueSimulate ==
    /\ probe.fn = "queue"
    /\ \E job_id \in QueueIds :
          probe' = [probe EXCEPT
                      !.queue = simulate_job_progress(probe.queue, job_id),
                      !.op = [name |-> "simulate_job_progress", id |-> job_id]]
    /\ JobsFrame

QueueFail ==
    /\ probe.fn = "queue"
    /\ \E id \in QueueIds \cap (1..Len(probe.queue.heap)) :
          probe' = [probe EXCEPT
                      !.queue.heap[id] = fail(@),
                      !.op = [name |-> "fail", id |-> id]]
    /\ JobsFrame

NextQueue == AddJob \/ QueueCancel \/ QueueSimulate \/ QueueFail
SpecQueue == InitQueue /\ [][NextQueue]_vars

(***************************************************************************)
(* The upload page (app/pages/upload.py).  process_video_upload submits a  *)
(* new job and reports; render_processing_queue shows the jobs of the      *)
(* queue in three tabs, newest first, draws the card of every job shown    *)
(* and calls simulate_job_progress on the jobs of the Active tab.  A       *)
(* button of a card that was clicked acts when its card is drawn and then  *)
(* reruns the script, which ends the render.  created_at orders the jobs   *)
(* as their ids do.                                                        *)
(***************************************************************************)
MaxUploads == 102

NoClick == [button |-> "none", id |-> 0]
Clicks ==
    {NoClick} \cup [button : {"cancel", "remove"}, id : {1, 2}]

RECURSIVE NewestFirst(_)
NewestFirst(ids) ==
    IF ids = {} THEN <<>>
    ELSE LET newest == CHOOSE id \in ids : \A other \in ids : other <= id
         IN  << newest >> \o NewestFirst(ids \ {newest})

(* render_job_card: the Cancel button of a RUNNING job, the Remove button *)
render_job_card(q, id, click) ==
    IF q.heap[id].status = RUNNING /\ click = [button |-> "cancel", id |-> id]
    THEN [queue |-> cancel_job(q, id).queue, rerun |-> TRUE]
    ELSE IF click = [button |-> "remove", id |-> id]
    THEN [queue |-> [q EXCEPT !.jobs = @ \ {id}], rerun |-> TRUE]
    ELSE [queue |-> q, rerun |-> FALSE]

RECURSIVE RenderActive(_, _, _)
RenderActive(q, ids, click) ==
    IF ids = <<>> THEN [queue |-> q, rerun |-> FALSE]
    ELSE LET card == render_job_card(q, Head(ids), click)
         IN  IF card.rerun THEN card
             ELSE RenderActive(simulate_job_progress(card.queue, Head(ids)),
                               Tail(ids), click)

RECURSIVE RenderCards(_, _, _)
RenderCards(q, ids, click) ==
    IF ids = <<>> THEN [queue |-> q, rerun |-> FALSE]
    ELSE LET card == render_job_card(q, Head(ids), click)
         IN  IF card.rerun THEN card
             ELSE RenderCards(card.queue, Tail(ids), click)

NoTabs == [active |-> <<>>, completed |-> <<>>, failed |-> <<>>]

(* the tabs: RUNNING; COMPLETED; FAILED or CANCELLED *)
Tabs(q) ==
    LET sorted_jobs == NewestFirst(q.jobs)
        IsActive(id) == q.heap[id].status = RUNNING
        IsCompleted(id) == q.heap[id].status = COMPLETED
        IsFailed(id) == q.heap[id].status \in {FAILED, CANCELLED}
    IN  [active |-> SelectSeq(sorted_jobs, IsActive),
         completed |-> SelectSeq(sorted_jobs, IsCompleted),
         failed |-> SelectSeq(sorted_jobs, IsFailed)]

render_processing_queue(q, click) ==
    IF q.jobs = {} THEN q
    ELSE LET tabs == Tabs(q)
             tab1 == RenderActive(q, tabs.active, click)
             tab2 == RenderCards(tab1.queue, tabs.completed, click)
             tab3 == RenderCards(tab2.queue, tabs.failed, click)
         IN  IF tab1.rerun THEN tab1.queue
             ELSE IF tab2.rerun THEN tab2.queue
             ELSE tab3.queue

InitUpload ==
    /\ NoPipeline
    /\ probe = [fn |-> "upload", queue |-> JobQueue, message |-> "none",
                rendered |-> FALSE, tabs |-> NoTabs]

(* the client is the mock, whose upload_video succeeds *)
ProcessVideoUpload ==
    /\ probe.fn = "upload"
    /\ Len(probe.queue.heap) < MaxUploads
    /\ \E q \in { create_video_processing_job(probe.queue) } :
          probe' = [probe EXCEPT
                      !.queue = add_job(q, Len(q.heap)),
                      !.message = "Processing started"]
    /\ JobsFrame

RenderProcessingQueue ==
    /\ probe.fn = "upload"
    /\ \E click \in Clicks :
          probe' = [probe EXCEPT
                      !.queue = render_processing_queue(probe.queue, click),
                      !.rendered = TRUE,
                      !.tabs = Tabs(probe.queue)]
    /\ JobsFrame

NextUpload == ProcessVideoUpload \/ RenderProcessingQueue
SpecUpload == InitUpload /\ [][NextUpload]_vars
(* the page is rendered again and again *)
SpecUploadFair == SpecUpload /\ WF_vars(RenderProcessingQueue)

(***************************************************************************)
(* The state of the live stream (app/hooks/use_live.py).  The fields are   *)
(* the ones a method of LiveStreamState writes.  An Optional[float] is the *)
(* empty sequence for None and << t >> for the value t; time.time() is a   *)
(* wall clock, read as any of a few instants; a float quotient is kept as  *)
(* the reduced fraction << numerator, denominator >>.                      *)
(***************************************************************************)
None == <<>>
Zero == << 0, 1 >>

RECURSIVE GCD(_, _)
GCD(a, b) == IF b = 0 THEN a ELSE GCD(b, a % b)
Fraction(n, d) == IF n = 0 THEN Zero ELSE << n \div GCD(n, d), d \div GCD(n, d) >>

LiveStreamState ==
    [is_streaming |-> FALSE, is_webcam_active |-> FALSE, fps |-> Zero,
     latency |-> 0, detection_count |-> 0, stream_start_time |-> None,
     last_frame_time |-> None, frame_count |-> 0, total_detections |-> 0,
     avg_processing_time |-> Zero,
     detection_settings |->
        [license_plates |-> TRUE, street_signs |-> TRUE,
         block_numbers |-> FALSE, faces |-> TRUE, documents |-> TRUE,
         screens |-> FALSE]]

start_stream(self, now) ==
    [self EXCEPT !.is_streaming = TRUE, !.is_webcam_active = TRUE,
                 !.stream_start_time = << now >>, !.frame_count = 0,
                 !.detection_count = 0]

(* stop_stream that keeps the start time *)
StopStreamKeepsStart(self) ==
    [self EXCEPT !.is_streaming = FALSE, !.is_webcam_active = FALSE,
                 !.last_frame_time = None, !.fps = Zero, !.latency = 0]
stop_stream(self) ==
    [self EXCEPT !.is_streaming = FALSE, !.is_webcam_active = FALSE,
                 !.stream_start_time = None, !.last_frame_time = None,
                 !.fps = Zero, !.latency = 0]

update_frame_stats(self, current_time, processing_time, detections_in_frame) ==
    LET time_diff == IF self.last_frame_time # None
                     THEN current_time - self.last_frame_time[1]
                     ELSE 0
        frame_count == self.frame_count + 1
    IN  [self EXCEPT
           !.fps = IF self.last_frame_time # None /\ time_diff > 0
                   THEN Fraction(1, time_diff)
                   ELSE @,
           !.last_frame_time = << current_time >>,
           !.frame_count = frame_count,
           !.detection_count = @ + detections_in_frame,
           !.total_detections = @ + detections_in_frame,
           !.avg_processing_time =
               IF processing_time > 0
               THEN Fraction(@[1] * (frame_count - 1) + processing_time * @[2],
                             @[2] * frame_count)
               ELSE @,
           !.latency = IF processing_time > 0 THEN processing_time * 1000 ELSE @]

update_detection_setting(self, setting, enabled) ==
    IF setting \in DOMAIN self.detection_settings
    THEN [self EXCEPT !.detection_settings[setting] = enabled]
    ELSE self

MaxFrameStats == 3
Instants == {1, 2}
ProcessingTimes == {0, 2}
DetectionsInFrame == {0, 2}
SettingNames == {"faces", "screens", "audio"}

LiveFrame ==
    UNCHANGED << pipeline, license_plate_model, reader, block_counter,
                 cached_block_regions, sign_frame_counter, cached_sign_regions,
                 call, hist, budget >>

InitLive ==
    /\ NoPipeline
    /\ probe = [fn |-> "live", state |-> LiveStreamState, stats |-> 0,
                op |-> [name |-> "none", setting |-> "none"]]

StartStream ==
    /\ probe.fn = "live"
    /\ \E now \in Instants :
          probe' = [probe EXCEPT
                      !.state = start_stream(probe.state, now),
                      !.op = [name |-> "start_stream", setting |-> "none"]]
    /\ LiveFrame

StopStream ==
    /\ probe.fn = "live"
    /\ probe' = [probe EXCEPT
                   !.state = stop_stream(probe.state),
                   !.op = [name |-> "stop_stream", setting |-> "none"]]
    /\ LiveFrame

UpdateFrameStats ==
    /\ probe.fn = "live"
    /\ probe.stats < MaxFrameStats
    /\ \E now \in Instants, processing_time \in ProcessingTimes,
          detections_in_frame \in DetectionsInFrame :
          probe' = [probe EXCEPT
                      !.state = update_frame_stats(probe.state, now,
                                    processing_time, detections_in_frame),
                      !.stats = @ + 1,
                      !.op = [name |-> "update_frame_stats", setting |-> "none"]]
    /\ LiveFrame

UpdateDetectionSetting ==
    /\ probe.fn = "live"
    /\ \E setting \in SettingNames, enabled \in BOOLEAN :
          probe' = [probe EXCEPT
                      !.state = update_detection_setting(probe.state, setting,
                                                         enabled),
                      !.op = [name |-> "update_detection_setting",
                              setting |-> setting]]
    /\ LiveFrame

NextLive ==
    StartStream \/ StopStream \/ UpdateFrameStats \/ UpdateDetectionSetting
SpecLive == InitLive /\ [][NextLive]_vars

(***************************************************************************)
(* Properties.                                                             *)
(***************************************************************************)
(* a detector's flag as the caller states it: present and true *)
Flag(settings, key) == key \in DOMAIN settings /\ settings[key] = TRUE

Returned == call.made /\ ~call.raised
Out == call.heap[call.ret]

(* C1: counting the calls with a detector enabled, the OCR adapter runs on *)
(* the k-th such call exactly when k mod 30 = 0 and the sign segmenter     *)
(* exactly when k mod 15 = 0, the plate detector on every enabled call;    *)
(* 59 enabled calls run the OCR adapter once; calls with the detector      *)
(* disabled do not shift the phase.                                        *)
C1_RefreshCadence ==
    /\ hist.ocr_runs = hist.block_calls \div 30
    /\ hist.seg_runs = hist.sign_calls \div 15
    /\ hist.block_calls = 59 => hist.ocr_runs = 1
    /\ Returned =>
          /\ call.ocr_ran <=> (Flag(call.settings, "block_numbers")
                                  /\ hist.block_calls % 30 = 0)
          /\ call.seg_ran <=> (Flag(call.settings, "street_signs")
                                  /\ hist.sign_calls % 15 = 0)
          /\ (call.plates.branch # "none") <=> Flag(call.settings, "license_plates")

C1_Witness ==
    /\ Returned
    /\ hist.block_calls = 59 /\ hist.ocr_runs = 1
    /\ hist.sign_calls = 31 /\ hist.seg_runs = 2
    /\ ~Flag(call.settings, "block_numbers")

(* C2: a call whose flag for a detector is false or absent leaves that     *)
(* detector's counter and cached regions as they were, whatever the other  *)
(* flags; the counter is never reset: it is the number of calls processed  *)
(* so far with the detector enabled.                                       *)
C2_DisabledPurity ==
    /\ block_counter = hist.block_calls
    /\ sign_frame_counter = hist.sign_calls
    /\ (call.made /\ ~Flag(call.settings, "block_numbers")) =>
          /\ block_counter = call.before.block_counter
          /\ cached_block_regions = call.before.cached_block_regions
    /\ (call.made /\ ~Flag(call.settings, "street_signs")) =>
          /\ sign_frame_counter = call.before.sign_frame_counter
          /\ cached_sign_regions = call.before.cached_sign_regions

C2_Witness ==
    /\ Returned
    /\ "block_numbers" \notin DOMAIN call.settings
    /\ Flag(call.settings, "license_plates") /\ Flag(call.settings, "street_signs")
    /\ block_counter = 30 /\ cached_block_regions # <<>>

Inside(a, b) == b[1] <= a[1] /\ b[2] <= a[2] /\ a[3] <= b[3] /\ a[4] <= b[4]

SeqToSet(s) == { s[i] : i \in 1..Len(s) }

(* the regions redacted in the last call: the cached regions of the        *)
(* enabled detectors as they stand after it, and the plate regions         *)
Redacted ==
    (IF Flag(call.settings, "license_plates")
     THEN SeqToSet(call.plates.regions) ELSE {})
    \cup (IF Flag(call.settings, "block_numbers")
          THEN SeqToSet(cached_block_regions) ELSE {})
    \cup (IF Flag(call.settings, "street_signs")
          THEN SeqToSet(cached_sign_regions) ELSE {})

(* C4: the returned frame differs from the input only inside the regions   *)
(* redacted in the call (a pixel can differ only inside a rectangle        *)
(* written, and every rectangle written lies inside one of the regions);   *)
(* with all flags false the output equals the input.                       *)
C4_RedactionConfined ==
    Returned =>
       /\ Out.shape = call.frame.shape
       /\ Out.tex = call.frame.tex
       /\ \A i \in 1..Len(Out.writes) :
             \E r \in Redacted : Inside(Out.writes[i].rect, r)
       /\ (\A k \in Keys : ~Flag(call.settings, k)) => Out = call.frame

C4_Witness ==
    /\ Returned
    /\ \A k \in Keys : Flag(call.settings, k)
    /\ \E i, j, k \in 1..Len(Out.writes) :
          /\ Out.writes[i].blur = "gauss51"
          /\ Out.writes[j].blur = "box51"
          /\ Out.writes[k].blur = "box21"
    /\ \A i \in 1..Len(Out.writes) :
          Out.writes[i].rect # <<0, 0, call.frame.shape[2], call.frame.shape[1]>>

PlateBlurred == \E i \in 1..Len(Out.writes) : Out.writes[i].blur = "gauss51"

FallbackCall ==
    /\ Returned
    /\ Flag(call.settings, "license_plates")
    /\ license_plate_model = "None"

(* C5, as claimed: without a model every call with license_plates enabled  *)
(* blurs at least one region, whatever the frame size (stated here for the *)
(* frames that have pixels at all).                                        *)
C5_FallbackAlwaysBlurs == (FallbackCall /\ HasArea(call.frame)) => PlateBlurred

(* C5, amended: without a model a call with license_plates enabled blurs   *)
(* at least one region exactly when one of the two 120x30 demo regions     *)
(* lies strictly inside the frame, that is when the frame is at least 134  *)
(* wide and 151 high, or at least 401 wide and 121 high; on a smaller      *)
(* frame nothing is blurred.                                               *)
C5_FallbackBlursLargeFrames ==
    FallbackCall =>
       (PlateBlurred <=>
          LET h == call.frame.shape[1]
              w == call.frame.shape[2]
          IN  (w >= 134 /\ h >= 151) \/ (w >= 401 /\ h >= 121))

C5_Witness ==
    /\ FallbackCall
    /\ call.frame.shape = <<200, 200, 3>>
    /\ Len(SelectSeq(Out.writes, LAMBDA x : x.blur = "gauss51")) = 1

(* C6: construction succeeds whether or not the plate model and the OCR    *)
(* reader load, and what failed to load stays failed: without the model    *)
(* every plate call takes the fallback branch, without the reader the      *)
(* block-number cache is empty after any sequence of calls.                *)
C6_DegradationPermanent ==
    /\ pipeline \in {"unconstructed", "constructed"}
    /\ call.made =>
          /\ pipeline = "constructed"
          /\ license_plate_model = call.before.license_plate_model
          /\ reader = call.before.reader
    /\ (Returned /\ Flag(call.settings, "license_plates")
          /\ license_plate_model = "None") => call.plates.branch = "fallback"
    /\ reader = "None" => cached_block_regions = <<>>

C6_Witness ==
    /\ Returned
    /\ license_plate_model = "None" /\ reader = "None"
    /\ call.plates.branch = "fallback"
    /\ call.ocr_ran /\ block_counter = 30

(* C7: process_frame called with a null frame or with a frame of height or *)
(* width 0 ends in an error, whatever the settings.                        *)
C7_FrameViolationReported ==
    (call.made /\ (IsNone(call.frame) \/ ~HasArea(call.frame))) => call.raised

(* the mapping with every detector stated: true where settings holds true  *)
Explicit(settings) == [k \in Keys |-> Flag(settings, k)]

(* C8: keys missing from the settings, and keys the processor does not     *)
(* know, count as false: the call behaves (result, buffers, counters and   *)
(* caches) as the call with every detector stated explicitly.              *)
C8_MissingKeysFalse ==
    call.made =>
       Bind(process_frame(call.before, call.frame, Explicit(call.settings), call.env),
            LAMBDA r : /\ r.raised = call.raised
                       /\ r.ret = call.ret
                       /\ r.heap = call.heap
                       /\ r.log = call.log
                       /\ r.self = Self)

C8_Witness ==
    /\ Returned
    /\ call.settings = [street_signs |-> TRUE, faces |-> TRUE]
    /\ call.seg_ran
    /\ Out.writes # <<>>

DetectorOrder == <<"license_plates", "block_numbers", "street_signs">>
Rank(det) == CHOOSE i \in 1..3 : DetectorOrder[i] = det
BlurRank(kind) == CASE kind = "gauss51" -> 1 [] kind = "box51" -> 2 [] kind = "box21" -> 3

(* C9: the enabled detectors run in the order plates, block numbers,       *)
(* signs, whatever the settings mapping; each detector works on the buffer *)
(* as the detectors before it left it.                                     *)
C9_FixedOrder ==
    Returned =>
       /\ [i \in 1..Len(call.log) |-> call.log[i].det]
             = SelectSeq(DetectorOrder, LAMBDA k : Flag(call.settings, k))
       /\ \A i \in 1..Len(call.log) :
             call.log[i].seen
               = SelectSeq(Out.writes,
                           LAMBDA x : BlurRank(x.blur) < Rank(call.log[i].det))

C9_Witness ==
    /\ Returned
    /\ Len(call.log) = 3
    /\ Len(call.log[2].seen) > 0
    /\ Len(call.log[3].seen) > Len(call.log[2].seen)
    /\ Len(Out.writes) > Len(call.log[3].seen)

(* C10: whenever _extract_bbox_safely returns a region, x1 < x2, y1 < y2,  *)
(* 0 <= x1, x2 <= width, 0 <= y1 and y2 <= height, for every frame size,   *)
(* width or height 0 included.                                             *)
C10_RegionClamp ==
    (probe.fn = "extract" /\ probe.done /\ probe.out # NoRegion) =>
       LET r == probe.out
           height == probe.shape[1]
           width == probe.shape[2]
       IN  /\ r[1] < r[3] /\ r[2] < r[4]
           /\ 0 <= r[1] /\ r[3] <= width
           /\ 0 <= r[2] /\ r[4] <= height

(* the identifier grammar as stated: 1 to 3 decimal digits, or 1 to 3      *)
(* decimal digits followed by exactly one uppercase letter                 *)
IsIdentifier(s) ==
    \/ Len(s) \in 1..3 /\ \A i \in 1..Len(s) : s[i] \in Digits
    \/ /\ Len(s) \in 2..4
       /\ \A i \in 1..(Len(s) - 1) : s[i] \in Digits
       /\ s[Len(s)] \in UpperLetters

(* C11: _is_singapore_block_number accepts exactly the strings of the      *)
(* identifier grammar and rejects every other string, a string with a      *)
(* trailing newline included.                                              *)
C11_GrammarExact ==
    (probe.fn = "match" /\ probe.done) => (probe.out <=> IsIdentifier(probe.text))

(* C12: _clean_text is idempotent: applied to its own result it returns    *)
(* that result.                                                            *)
C12_NormalizeIdempotent ==
    (probe.fn = "clean" /\ probe.stage = "twice") => probe.twice = probe.once

(* a text that the first pass changes in every way: stripped, uppercased,  *)
(* a character dropped, a misread replaced                                 *)
C12_Witness ==
    /\ probe.fn = "clean" /\ probe.stage = "twice"
    /\ probe.text = <<"\n", "o", "-", "B", "_">>
    /\ probe.once = <<"0", "8", "_">>

(* a returned call that took the plate fallback *)
FallbackOf(c) == c.made /\ ~c.raised /\ c.plates.branch = "fallback"

(* C13: without a model, two consecutive calls that run the plate fallback *)
(* on frames of the same height and width select the same regions,         *)
(* whatever the pixels, the number of frames processed before and the      *)
(* block-number and sign caches.                                           *)
C13_FallbackDeterminism ==
    [][ (FallbackOf(call) /\ FallbackOf(call')
            /\ call'.frame.shape = call.frame.shape)
        => call'.plates.regions = call.plates.regions ]_vars

(* a fallback call on a uniform 200x200 frame that selects a region, made  *)
(* as the last of the calls, after at least fifteen sign calls and with     *)
(* sign regions cached                                                     *)
C13_Witness ==
    /\ FallbackOf(call)
    /\ call.frame = Frame(200, 200, "white")
    /\ call.plates.regions # <<>>
    /\ call.before.sign_frame_counter >= SignPeriod
    /\ call.before.cached_sign_regions # <<>>
    /\ budget = 0

AllIdle == \A t \in Threads : probe.pc[t] = "idle"

(* C14: calls that are serialized leave the counter at the number of       *)
(* enabled calls n and have run floor(n / period) refreshes; calls that    *)
(* overlap can lose an increment and can run a due refresh twice or not    *)
(* at all (the states of C14_Witness and RefreshSkipped).                  *)
C14_SerializedCounts ==
    (probe.fn = "threads" /\ AllIdle /\ ~probe.overlapped) =>
        /\ Counter(probe.det) = probe.calls
        /\ probe.refreshes = probe.calls \div Period(probe.det)

(* two overlapping calls have both read 29, both written 30 and both run   *)
(* the refresh: 31 calls, the counter at 30, two refreshes                 *)
C14_Witness ==
    /\ probe.fn = "threads" /\ AllIdle /\ probe.overlapped
    /\ probe.det = "block_numbers"
    /\ probe.calls = BlockPeriod + 1
    /\ block_counter = BlockPeriod
    /\ probe.refreshes = 2

(* two overlapping calls have both incremented before either tested: the   *)
(* counter passed 30 and no refresh ran                                    *)
RefreshSkipped ==
    /\ probe.fn = "threads" /\ AllIdle /\ probe.overlapped
    /\ probe.det = "block_numbers"
    /\ block_counter = BlockPeriod + 1
    /\ probe.refreshes = 0

(* C15: a process_frame call on one processor instance leaves the counters *)
(* and cached regions of every other instance unchanged, in every          *)
(* interleaving of the calls to two instances.                             *)
C15_InstancesIndependent ==
    [][ probe.fn = "instances" =>
          \A i \in Instances :
             probe'.acted # i => probe'.inst[i] = probe.inst[i] ]_vars

(* instance a has just been called for the 30th time while instance b      *)
(* stands at 15 calls with regions cached that a does not hold             *)
C15_Witness ==
    /\ probe.fn = "instances"
    /\ probe.acted = "a"
    /\ probe.inst["a"].block_counter = BlockPeriod
    /\ probe.inst["b"].sign_frame_counter = SignPeriod
    /\ probe.inst["b"].cached_sign_regions # <<>>
    /\ probe.inst["a"].cached_sign_regions = <<>>
    /\ probe.inst["a"].cached_block_regions # <<>>

(* C16: the frame process_frame returns has the height, the width and the  *)
(* channel count of the frame it was given, for every settings value and   *)
(* every state of the caches.                                              *)
C16_ShapePreserved == Returned => Out.shape = call.frame.shape

(* a 200x200 frame processed with regions cached from a 480x640 frame, at  *)
(* least one of them blurred                                               *)
C16_Witness ==
    /\ Returned
    /\ call.frame.shape = <<200, 200, 3>>
    /\ Flag(call.settings, "block_numbers")
    /\ call.before.cached_block_regions # <<>>
    /\ ~call.ocr_ran
    /\ Out.writes # <<>>
    /\ Out.shape = <<200, 200, 3>>

(* the scenario: a 100x100 all-white frame, block_numbers alone enabled, a *)
(* refresh call on which the engine returns the one detection              *)
(* (bbox 40..60, text "1O5", confidence 0.9)                               *)
WhiteScenario ==
    /\ Returned
    /\ call.frame = Frame(100, 100, "white")
    /\ call.settings = [block_numbers |-> TRUE]
    /\ call.ocr_ran
    /\ call.before.reader # "None"
    /\ call.env.ocr = EngineOne

(* C17, as claimed: in the scenario the redacted sub-image of the output   *)
(* differs from the all-white input in at least one pixel.                 *)
C17_WhiteRegionDiffers == WhiteScenario => PixelsChanged(Out)

(* C17: in the scenario the region (30, 30, 70, 70) is cached and          *)
(* overwritten with its box blur, and no pixel of the output differs from  *)
(* the input: the average of all-white pixels is white.                    *)
C17_WhiteRegionRewritten ==
    WhiteScenario =>
        /\ cached_block_regions = << <<30, 30, 70, 70>> >>
        /\ Out.writes = << [rect |-> <<30, 30, 70, 70>>, blur |-> "box51"] >>
        /\ ~PixelsChanged(Out)

C17_Witness == WhiteScenario /\ Out.writes # <<>> /\ block_counter = BlockPeriod

(* a call in which the plate model was invoked and the except clause of    *)
(* blur_license_plates was reached                                         *)
PlateFailure == call.made /\ call.plates.branch = "model" /\ call.plates.failed

(* the rectangles the plate blur wrote in the last call *)
PlateWrites ==
    { Out.writes[i].rect : i \in { j \in 1..Len(Out.writes) :
                                      Out.writes[j].blur = "gauss51" } }

(* the boxes handled before the first box whose handling raises *)
BoxesBeforeFailure(boxes) ==
    { i \in 1..Len(boxes) :
        /\ boxes[i].conf > PlateConf
        /\ \A j \in 1..i : ~(boxes[j].conf > PlateConf /\ BoxRaises(boxes[j])) }

BlockRefreshFailed ==
    /\ Returned /\ call.ocr_ran
    /\ call.before.reader # "None"
    /\ call.env.ocr.raises
SignRefreshFailed == Returned /\ call.seg_ran /\ call.env.cv.raises

(* C19: when a due refresh of the block-number or the sign detector fails, *)
(* the detector's cached regions are the empty sequence after the call,    *)
(* whatever was cached before, and its counter has advanced by one.        *)
C19_FailedRefreshClears ==
    /\ BlockRefreshFailed =>
          /\ cached_block_regions = <<>>
          /\ block_counter = call.before.block_counter + 1
    /\ SignRefreshFailed =>
          /\ cached_sign_regions = <<>>
          /\ sign_frame_counter = call.before.sign_frame_counter + 1

(* the 60th block-number call and 30th sign call: both refreshes fail and  *)
(* discard the regions cached at the refreshes before                      *)
C19_Witness ==
    /\ BlockRefreshFailed /\ SignRefreshFailed
    /\ call.before.cached_block_regions # <<>>
    /\ call.before.cached_sign_regions # <<>>
    /\ cached_block_regions = <<>>
    /\ cached_sign_regions = <<>>
    /\ block_counter = 2 * BlockPeriod

(* C20, as claimed: a detector's cached regions are the result of its most *)
(* recent successful detection cycle, or are empty when no cycle has       *)
(* succeeded yet or the cycles have failed repeatedly.                     *)
C20_CacheIsLastSuccess ==
    /\ \/ cached_block_regions = hist.block_last_ok
       \/ cached_block_regions = <<>> /\ hist.block_fails >= 2
    /\ \/ cached_sign_regions = hist.sign_last_ok
       \/ cached_sign_regions = <<>> /\ hist.sign_fails >= 2

(* C20: in every reachable state a detector's cached regions are the       *)
(* result of its most recent detection cycle: what the cycle detected if   *)
(* it succeeded, empty if it failed (once is enough), empty before the     *)
(* first cycle.                                                            *)
C20_CacheIsLastCycle ==
    /\ cached_block_regions =
          IF hist.block_fails > 0 THEN <<>> ELSE hist.block_last_ok
    /\ cached_sign_regions =
          IF hist.sign_fails > 0 THEN <<>> ELSE hist.sign_last_ok

(* one failed cycle after a successful one: the regions of the successful  *)
(* cycle are gone                                                          *)
C20_Witness ==
    /\ hist.block_last_ok # <<>> /\ hist.block_fails = 1
    /\ cached_block_regions = <<>>
    /\ hist.sign_last_ok # <<>> /\ hist.sign_fails = 0
    /\ cached_sign_regions = hist.sign_last_ok
    /\ hist.seg_runs = 2

(* the rectangles a detector's blur wrote in the last call, in order *)
IsBox51(w) == w.blur = "box51"
IsBox21(w) == w.blur = "box21"
BlockWrites == SelectSeq(Out.writes, IsBox51)
SignWrites == SelectSeq(Out.writes, IsBox21)

(* the part of the frame a region covers, where it covers any *)
RECURSIVE Covered(_, _, _)
Covered(regions, frame, kind) ==
    IF regions = <<>> THEN <<>>
    ELSE LET r == Head(regions)
             rect == << Max(0, Min(r[1], frame.shape[2])), Max(0, Min(r[2], frame.shape[1])),
                        Max(0, Min(r[3], frame.shape[2])), Max(0, Min(r[4], frame.shape[1])) >>
         IN  (IF rect[1] < rect[3] /\ rect[2] < rect[4]
              THEN << [rect |-> rect, blur |-> kind] >> ELSE <<>>)
             \o Covered(Tail(regions), frame, kind)

(* C21: on every call with a cached detector enabled the regions blurred   *)
(* in the call are exactly the detector's cached regions as they stand     *)
(* after the call's refresh step: on a refresh call the regions detected   *)
(* on this frame, on any other call the regions cached before.             *)
C21_CurrentCacheRedacted ==
    /\ (Returned /\ Flag(call.settings, "block_numbers")) =>
          /\ BlockWrites = Covered(cached_block_regions, call.frame, "box51")
          /\ cached_block_regions =
                IF call.ocr_ran
                THEN detect_singapore_block_numbers(call.before.reader,
                                                    call.frame, call.env.ocr)
                ELSE call.before.cached_block_regions
    /\ (Returned /\ Flag(call.settings, "street_signs")) =>
          /\ SignWrites = Covered(cached_sign_regions, call.frame, "box21")
          /\ cached_sign_regions =
                IF call.seg_ran
                THEN _detect_signs_singapore(call.frame, call.env.cv)
                ELSE call.before.cached_sign_regions

(* the 30th block-number call, on a 200x200 frame: the region detected in  *)
(* this call is blurred in this call                                       *)
C21_Witness ==
    /\ Returned /\ call.ocr_ran
    /\ call.frame.shape = <<200, 200, 3>>
    /\ call.before.cached_block_regions = <<>>
    /\ cached_block_regions = << <<30, 30, 70, 70>> >>
    /\ BlockWrites = << [rect |-> <<30, 30, 70, 70>>, blur |-> "box51"] >>

(* C22: a call with a detector enabled whose incremented counter is not a  *)
(* multiple of the refresh period does not run the detector and leaves     *)
(* its cached regions as they were: block-number calls 1-29 and 31-59 see  *)
(* the regions of the refresh before them, or the initial empty sequence.  *)
C22_CacheFrozenBetweenRefreshes ==
    /\ (Returned /\ Flag(call.settings, "block_numbers")
           /\ block_counter % BlockPeriod # 0) =>
          /\ ~call.ocr_ran
          /\ cached_block_regions = call.before.cached_block_regions
    /\ (Returned /\ Flag(call.settings, "street_signs")
           /\ sign_frame_counter % SignPeriod # 0) =>
          /\ ~call.seg_ran
          /\ cached_sign_regions = call.before.cached_sign_regions

(* the 59th block-number call still holds the region of the refresh at    *)
(* the 30th, and the sign call after the refresh at the 15th holds the     *)
(* region cached there                                                     *)
C22_Witness ==
    /\ Returned
    /\ Flag(call.settings, "block_numbers") /\ Flag(call.settings, "street_signs")
    /\ block_counter = 2 * BlockPeriod - 1
    /\ cached_block_regions # <<>>
    /\ sign_frame_counter = SignPeriod + 1
    /\ cached_sign_regions # <<>>

(* C23: after construction the block-number cache is empty until the 30th  *)
(* enabled call and the sign cache until the 15th: the first 29            *)
(* block-number calls and the first 14 sign calls return the frame with    *)
(* nothing blurred by that detector.                                       *)
C23_ColdStartGap ==
    /\ block_counter < BlockPeriod => cached_block_regions = <<>>
    /\ sign_frame_counter < SignPeriod => cached_sign_regions = <<>>
    /\ (Returned /\ Flag(call.settings, "block_numbers")
           /\ block_counter < BlockPeriod) => BlockWrites = <<>>
    /\ (Returned /\ Flag(call.settings, "street_signs")
           /\ sign_frame_counter < SignPeriod) => SignWrites = <<>>

(* the 29th block-number call, with the reader loaded: nothing blurred     *)
(* for block numbers, while the sign detector, past its 15th call, blurs   *)
C23_Witness ==
    /\ Returned
    /\ reader # "None"
    /\ Flag(call.settings, "block_numbers") /\ Flag(call.settings, "street_signs")
    /\ block_counter = BlockPeriod - 1
    /\ BlockWrites = <<>>
    /\ sign_frame_counter >= SignPeriod
    /\ SignWrites # <<>>

(* the cached regions a detector's loop applies: those that pass the test  *)
(* x2 > x1 and y2 > y1                                                     *)
Applied(regions) ==
    { regions[i] : i \in { j \in 1..Len(regions) :
                             regions[j][3] > regions[j][1] /\ regions[j][4] > regions[j][2] } }

RegionInFrame(r, frame) ==
    /\ 0 <= r[1] /\ r[1] < r[3] /\ r[3] <= frame.shape[2]
    /\ 0 <= r[2] /\ r[2] < r[4] /\ r[4] <= frame.shape[1]

(* C24: every cached region applied to a frame satisfies                   *)
(* 0 <= x1 < x2 <= width and 0 <= y1 < y2 <= height for the frame of that  *)
(* call, also when that frame has other dimensions than the frame the      *)
(* regions were detected on (stated here for the frames that have pixels). *)
C24_AppliedRegionsInFrame ==
    /\ (Returned /\ HasArea(call.frame) /\ Flag(call.settings, "block_numbers")) =>
          \A r \in Applied(cached_block_regions) : RegionInFrame(r, call.frame)
    /\ (Returned /\ HasArea(call.frame) /\ Flag(call.settings, "street_signs")) =>
          \A r \in Applied(cached_sign_regions) : RegionInFrame(r, call.frame)

(* a raw box that is absent, is not a sequence of exactly 4 points, has a  *)
(* point that is not a 2-element sequence, or has a coordinate that cannot *)
(* be read as a number                                                     *)
Malformed(bbox) ==
    \/ bbox.isNone
    \/ Len(bbox.pts) # 4
    \/ \E i \in 1..Len(bbox.pts) : Len(bbox.pts[i]) # 2
    \/ \E i \in 1..Len(bbox.pts) : \E j \in 1..Len(bbox.pts[i]) :
          bbox.pts[i][j] = NonNumeric

WellFormedOnly(results) == SelectSeq(results, LAMBDA d : ~Malformed(d.bbox))

(* C25: for a malformed raw box _extract_bbox_safely returns None; a       *)
(* detection with such a box contributes no region and the other           *)
(* detections of the batch are processed as if it were not there.          *)
C25_MalformedRejected ==
    (probe.fn = "detect" /\ probe.done) =>
        /\ \A i \in 1..Len(probe.results) :
              Malformed(probe.results[i].bbox) => probe.coords[i] = NoRegion
        /\ probe.out = detect_singapore_block_numbers(
                          "Reader", DetectFrame,
                          [raises |-> FALSE, results |-> WellFormedOnly(probe.results)])

(* a batch with each kind of malformed box and a good detection after      *)
(* them: the good detection is the output                                  *)
C25_Witness ==
    /\ probe.fn = "detect" /\ probe.done
    /\ Len(probe.results) = 5
    /\ probe.results[1].bbox = NoBox
    /\ probe.results[2].bbox = ThreePoints
    /\ probe.results[3].bbox = LongPoint
    /\ probe.results[4].bbox = TextCoordinate
    /\ probe.out = << <<30, 30, 70, 70>> >>

(* the integer bounding box of a well-formed polygon, cut to the frame,    *)
(* has no area: the points coincide or lie on one axis-parallel line, or   *)
(* the polygon lies wholly outside the frame                               *)
DegenerateInFrame(bbox, shape) ==
    LET xs == [i \in 1..4 |-> bbox.pts[i][1]]
        ys == [i \in 1..4 |-> bbox.pts[i][2]]
        x1 == Max(0, Min(IntOfHalf(SeqMin(xs)), shape[2]))
        x2 == Max(0, Min(IntOfHalf(SeqMax(xs)), shape[2]))
        y1 == Max(0, Min(IntOfHalf(SeqMin(ys)), shape[1]))
        y2 == Max(0, Min(IntOfHalf(SeqMax(ys)), shape[1]))
    IN  x2 <= x1 \/ y2 <= y1

(* C26: _extract_bbox_safely returns None for a polygon that degenerates   *)
(* to zero area after clamping to the frame (stated here for the frames    *)
(* that have pixels).                                                      *)
C26_DegenerateRejected ==
    (/\ probe.fn = "extract" /\ probe.done
     /\ probe.shape[1] > 0 /\ probe.shape[2] > 0
     /\ ~Malformed(probe.bbox)
     /\ DegenerateInFrame(probe.bbox, probe.shape)) => probe.out = NoRegion

(* the integer bounding box <<minx, miny, maxx, maxy>> of a well-formed    *)
(* polygon                                                                 *)
IntBox(bbox) ==
    LET xs == [i \in 1..4 |-> bbox.pts[i][1]]
        ys == [i \in 1..4 |-> bbox.pts[i][2]]
    IN  << IntOfHalf(SeqMin(xs)), IntOfHalf(SeqMin(ys)),
           IntOfHalf(SeqMax(xs)), IntOfHalf(SeqMax(ys)) >>

(* C27: for a well-formed polygon whose integer bounding box (minx, miny,  *)
(* maxx, maxy) has positive area and lies inside the frame,                *)
(* _extract_bbox_safely returns (max(0, minx-10), max(0, miny-10),         *)
(* min(width, maxx+10), min(height, maxy+10)); the polygon 40..60 in a     *)
(* 100x100 frame gives (30, 30, 70, 70).                                   *)
C27_PaddedAndClamped ==
    (probe.fn = "extract" /\ probe.done /\ ~Malformed(probe.bbox)) =>
        LET b == IntBox(probe.bbox)
            height == probe.shape[1]
            width == probe.shape[2]
        IN  /\ (/\ 0 <= b[1] /\ b[1] < b[3] /\ b[3] <= width
                /\ 0 <= b[2] /\ b[2] < b[4] /\ b[4] <= height) =>
                   probe.out = << Max(0, b[1] - 10), Max(0, b[2] - 10),
                                  Min(width, b[3] + 10), Min(height, b[4] + 10) >>
            /\ (probe.bbox = Rect(80, 80, 120, 120) /\ probe.shape = <<100, 100, 3>>) =>
                   probe.out = <<30, 30, 70, 70>>

(* a box 10..30 by 0..30 in a frame 35 wide and 50 high: the padding is    *)
(* cut at the left, the top and the right                                  *)
C27_Witness ==
    /\ probe.fn = "extract" /\ probe.done
    /\ IntBox(probe.bbox) = <<10, 0, 30, 30>>
    /\ probe.shape = <<50, 35, 3>>
    /\ probe.out = <<0, 0, 35, 40>>

(* C28: every character of the output of _clean_text is an uppercase       *)
(* letter or a digit: no underscore, punctuation or whitespace survives.   *)
C28_OnlyAlphanumerics ==
    (probe.fn = "clean" /\ probe.stage # "raw") =>
        \A i \in 1..Len(probe.once) : probe.once[i] \in Digits \cup UpperLetters

Confusables == {"O", "I", "S", "G", "Z", "B"}

(* C29: the output of _clean_text contains none of the letters O, I, S,    *)
(* G, Z, B; "12B" becomes "128", and a cleaned text that matches the       *)
(* block-number grammar with a trailing letter has a letter outside that   *)
(* set.                                                                    *)
C29_NoConfusableLetter ==
    (probe.fn = "clean" /\ probe.stage # "raw") =>
        /\ \A i \in 1..Len(probe.once) : probe.once[i] \notin Confusables
        /\ probe.text = <<"1", "2", "B">> => probe.once = <<"1", "2", "8">>
        /\ (_is_singapore_block_number(probe.once)
               /\ probe.once[Len(probe.once)] \notin Digits) =>
              probe.once[Len(probe.once)] \in UpperLetters \ Confusables

(* "o2B\n" is cleaned to "028", which matches as three digits *)
C29_Witness ==
    /\ probe.fn = "clean" /\ probe.stage # "raw"
    /\ probe.text = <<"o", "2", "B", "\n">>
    /\ probe.once = <<"0", "2", "8">>
    /\ _is_singapore_block_number(probe.once)

(* a detection with a well-formed polygon, a confidence strictly greater   *)
(* than 0.4 and a normalized text of the identifier grammar                *)
Passes(d) ==
    /\ ~Malformed(d.bbox)
    /\ d.conf > 40
    /\ IsIdentifier(_clean_text(d.text))

(* C30: the output of detect_singapore_block_numbers is the first at most  *)
(* 4, in engine order, of the regions extracted from the detections that   *)
(* pass the three checks; a detection failing one of them contributes no   *)
(* region.                                                                 *)
C30_AdapterOutput ==
    (probe.fn = "detect" /\ probe.done) =>
        LET passing == SelectSeq(probe.results, Passes)
        IN  probe.out = [i \in 1..Min(4, Len(passing)) |->
                            _extract_bbox_safely(passing[i].bbox, DetectFrame.shape)]

(* five passing detections with different boxes, after none failing: the   *)
(* first four regions in engine order, the fifth dropped                   *)
C30_Witness ==
    /\ probe.fn = "detect" /\ probe.done
    /\ Len(probe.results) = 5
    /\ \A i \in 1..5 : Passes(probe.results[i])
    /\ probe.coords[5] = <<0, 0, 40, 30>>
    /\ probe.out = << <<30, 30, 70, 70>>, <<0, 0, 40, 30>>,
                      <<0, 0, 40, 30>>, <<30, 30, 70, 70>> >>

(* the processing of a detection raises: its confidence cannot be compared *)
DetectionFails(d) == ~Malformed(d.bbox) /\ d.conf = ConfNone

(* C31: a failure while processing one detection skips that detection only *)
(* and the others are evaluated as without it; a failure of the engine     *)
(* call gives the empty result; the adapter returns a result in both       *)
(* cases.                                                                  *)
C31_FailureIsolation ==
    (probe.fn = "detect" /\ probe.done) =>
        /\ probe.raises => probe.out = <<>>
        /\ ~probe.raises =>
              probe.out = detect_singapore_block_numbers(
                             "Reader", DetectFrame,
                             [raises |-> FALSE,
                              results |-> SelectSeq(probe.results,
                                                    LAMBDA d : ~DetectionFails(d))])
        /\ \A i \in 1..Len(probe.out) : probe.out[i] \in SeqToSet(probe.coords)

(* a detection whose processing raises between two good ones: both good    *)
(* regions are returned                                                    *)
C31_Witness ==
    /\ probe.fn = "detect" /\ probe.done
    /\ Len(probe.results) = 3
    /\ DetectionFails(probe.results[2])
    /\ probe.out = << <<30, 30, 70, 70>>, <<0, 0, 40, 30>> >>

(* a contour whose area is strictly between 800 and 25000 and whose        *)
(* bounding-box width/height ratio is strictly between 1.5 and 6.5         *)
Kept(c) ==
    /\ 2 * 800 < c.area2 /\ c.area2 < 2 * 25000
    /\ 15 * c.rect[4] < 10 * c.rect[3] /\ 10 * c.rect[3] < 65 * c.rect[4]

(* C32: _detect_signs_singapore keeps a contour exactly when its area is   *)
(* strictly between 800 and 25000 and its width/height ratio strictly      *)
(* between 1.5 and 6.5, emits its bounding box (x, y, x+w, y+h) unpadded,  *)
(* returns at most the first 3 kept regions in contour order, and returns  *)
(* the empty result when an OpenCV call fails.                             *)
C32_SignSegmenter ==
    (probe.fn = "signs" /\ probe.done) =>
        LET kept == SelectSeq(probe.contours, Kept)
        IN  /\ probe.raises => probe.out = <<>>
            /\ probe.out = [i \in 1..Min(3, Len(kept)) |->
                              << kept[i].rect[1], kept[i].rect[2],
                                 kept[i].rect[1] + kept[i].rect[3],
                                 kept[i].rect[2] + kept[i].rect[4] >>]

(* four contours inside both bands, after none outside: the first three,   *)
(* in order, the fourth dropped                                            *)
C32_Witness ==
    /\ probe.fn = "signs" /\ probe.done
    /\ Len(probe.contours) = 4
    /\ \A i \in 1..4 : Kept(probe.contours[i])
    /\ probe.contours[4].rect = <<10, 10, 60, 30>>
    /\ probe.out = << <<300, 200, 331, 220>>, <<100, 100, 229, 120>>,
                      <<10, 10, 70, 40>> >>


(***************************************************************************)
(* The job queue.                                                          *)
(***************************************************************************)
HookCalls == { "submit_job", "cancel_job", "simulate_job_progress" }
Moves ==
    { << PENDING, RUNNING >>, << RUNNING, COMPLETED >>,
      << PENDING, CANCELLED >>, << RUNNING, CANCELLED >> }
JobObjects == 1..Len(probe.queue.heap)

(* C34: under submit_job, cancel_job and simulate_job_progress a Job's     *)
(* status either stays as it is or moves PENDING -> RUNNING, RUNNING ->    *)
(* COMPLETED, or from PENDING or RUNNING to CANCELLED; so a status of      *)
(* COMPLETED, FAILED or CANCELLED never changes again.                     *)
C34_TerminalAbsorbing ==
    [][ (probe.fn = "jobs" /\ probe'.op.name \in HookCalls) =>
            \A id \in JobObjects :
                \/ probe'.queue.heap[id].status = probe.queue.heap[id].status
                \/ << probe.queue.heap[id].status,
                      probe'.queue.heap[id].status >> \in Moves ]_vars

C34_Witness ==
    /\ probe.fn = "jobs"
    /\ probe.op = [name |-> "simulate_job_progress", id |-> 1]
    /\ Len(probe.queue.heap) = 2
    /\ probe.queue.jobs = {1, 2}
    /\ probe.queue.heap[1].status = FAILED
    /\ probe.queue.heap[2].status = COMPLETED

(* C35: cancel_job(job_id) returns True and sets the job's status to       *)
(* CANCELLED exactly when job_id is a key of jobs and the job is PENDING   *)
(* or RUNNING; otherwise it returns False and the queue and every job are  *)
(* as they were.                                                           *)
C35_CancelJob ==
    [][ (probe.fn = "jobs" /\ probe'.op.name = "cancel_job") =>
            LET job_id == probe'.op.id
                live == /\ job_id \in probe.queue.jobs
                        /\ probe.queue.heap[job_id].status \in {PENDING, RUNNING}
            IN  /\ probe'.ret = (IF live THEN "True" ELSE "False")
                /\ live => probe'.queue =
                              [probe.queue EXCEPT
                                  !.heap[job_id].status = CANCELLED]
                /\ ~live => probe'.queue = probe.queue ]_vars

C35_Witness ==
    /\ probe.fn = "jobs"
    /\ probe.op = [name |-> "cancel_job", id |-> 2]
    /\ probe.ret = "True"
    /\ probe.queue.heap[2] = [status |-> CANCELLED, progress |-> 45]
    /\ probe.queue.heap[1].status = CANCELLED

(* C37: every Job's progress is within [0, 100] and is 100 when the Job is *)
(* COMPLETED; no call lowers it, and simulate_job_progress on a RUNNING    *)
(* job of the queue below 100 raises it by 5.                              *)
C37_Progress ==
    /\ [](probe.fn = "jobs" =>
            \A id \in JobObjects :
                /\ probe.queue.heap[id].progress \in 0..100
                /\ probe.queue.heap[id].status = COMPLETED =>
                       probe.queue.heap[id].progress = 100)
    /\ [][ probe.fn = "jobs" =>
            \A id \in JobObjects :
                /\ probe'.queue.heap[id].progress >= probe.queue.heap[id].progress
                /\ ( /\ probe'.op = [name |-> "simulate_job_progress", id |-> id]
                     /\ id \in probe.queue.jobs
                     /\ probe.queue.heap[id].status = RUNNING
                     /\ probe.queue.heap[id].progress < 100 ) =>
                       probe'.queue.heap[id].progress =
                           probe.queue.heap[id].progress + 5 ]_vars

C37_Witness ==
    /\ probe.fn = "jobs"
    /\ probe.op = [name |-> "simulate_job_progress", id |-> 1]
    /\ probe.queue.jobs = {1, 2}
    /\ probe.queue.heap[1] = [status |-> COMPLETED, progress |-> 100]
    /\ probe.queue.heap[2] = [status |-> RUNNING, progress |-> 95]


(* C36: job_history never holds more than max_history ids; an add_job that *)
(* overflows it drops the oldest id, and the only job an add_job removes   *)
(* from jobs is the job of the dropped id when it is COMPLETED, FAILED or  *)
(* CANCELLED: no PENDING or RUNNING job leaves jobs.                       *)
C36_HistoryBound ==
    /\ [](probe.fn = "queue" => Len(probe.queue.job_history) <= max_history)
    /\ [][ (probe.fn = "queue" /\ probe'.op.name = "add_job"
                /\ probe'.queue # probe.queue) =>
            LET before == probe.queue
                after == probe'.queue
                overflow == Len(before.job_history) = max_history
            IN  /\ after.job_history =
                       IF overflow
                       THEN Append(Tail(before.job_history), probe'.op.id)
                       ELSE Append(before.job_history, probe'.op.id)
                /\ \A id \in before.jobs \ after.jobs :
                       /\ overflow
                       /\ id = Head(before.job_history)
                       /\ before.heap[id].status \in {COMPLETED, FAILED, CANCELLED}
                /\ \A id \in before.jobs :
                       before.heap[id].status \in {PENDING, RUNNING} =>
                           id \in after.jobs ]_vars

C36_Witness ==
    /\ probe.fn = "queue"
    /\ probe.op = [name |-> "add_job", id |-> 102]
    /\ Len(probe.queue.job_history) = max_history
    /\ Head(probe.queue.job_history) = 3
    /\ 1 \notin probe.queue.jobs
    /\ 2 \in probe.queue.jobs
    /\ probe.queue.heap[1].status = COMPLETED
    /\ probe.queue.heap[2].status = PENDING


(* C33: a job that process_video_upload has submitted is, under repeated   *)
(* renders of the processing queue, eventually COMPLETED.                  *)
C33_UploadProgress ==
    \A id \in 1..MaxUploads :
        ( /\ probe.fn = "upload"
          /\ probe.message = "Processing started"
          /\ id \in probe.queue.jobs
          /\ probe.queue.heap[id].status = PENDING )
        ~> ( /\ id \in 1..Len(probe.queue.heap)
             /\ probe.queue.heap[id].status = COMPLETED )


(***************************************************************************)
(* The state of the live stream.                                           *)
(***************************************************************************)
(* C38: is_streaming equals is_webcam_active, and stream_start_time is set *)
(* exactly when is_streaming is true; start_stream sets frame_count and    *)
(* detection_count to 0 and leaves total_detections as it was; and         *)
(* update_detection_setting with a key that detection_settings does not    *)
(* hold changes nothing.                                                   *)
C38_LiveState ==
    /\ [](probe.fn = "live" =>
            /\ probe.state.is_streaming = probe.state.is_webcam_active
            /\ probe.state.is_streaming <=> probe.state.stream_start_time # None)
    /\ [][ probe.fn = "live" =>
            /\ probe'.op.name = "start_stream" =>
                  /\ probe'.state.frame_count = 0
                  /\ probe'.state.detection_count = 0
                  /\ probe'.state.total_detections = probe.state.total_detections
            /\ ( /\ probe'.op.name = "update_detection_setting"
                 /\ probe'.op.setting \notin DOMAIN probe.state.detection_settings )
                  => probe'.state = probe.state ]_vars

C38_Witness ==
    /\ probe.fn = "live"
    /\ probe.op.name = "start_stream"
    /\ probe.state.is_streaming
    /\ probe.state.stream_start_time = << 2 >>
    /\ probe.state.frame_count = 0
    /\ probe.state.detection_count = 0
    /\ probe.state.total_detections = 4
    /\ probe.state.last_frame_time = << 1 >>

=============================================================================
